---- MODULE Spec2Model ----
(***************************************************************************)
(* State-machine models of the hooks of qazuor/reactCustomHooks.           *)
(*                                                                         *)
(* Each hook is modelled with its own group of variables and its own       *)
(* specification (SpecStorage, SpecQueue, SpecDebounce, SpecTimeout); the  *)
(* hooks share no state, so a specification holds the other groups idle.   *)
(*                                                                         *)
(* The host runtime is React in its ordinary (non-strict, synchronous)     *)
(* mode: a state setter computes the next state at once when no update of *)
(* the component is scheduled, and queues the update otherwise for the     *)
(* next render, which applies the queued updates in order, each exactly    *)
(* once.  Effects run after the render that declares them; a cleanup runs  *)
(* before the next run of its effect and on unmount.                       *)
(***************************************************************************)
EXTENDS Integers, Sequences, FiniteSets, TLC

\* ------------------------------------------------------------------ bounds
\* Values a hook may hold are 0..MaxVal.
MaxVal == 1
\* Calls from the component or the platform per behaviour of the storage hooks.
MaxOps == 3

VARIABLES
    \* ---- useLocalStorage / useSessionStorage, driven in lockstep
    stPhase,        \* "new" (not rendered yet), "mounted", "unmounted"
    stStore,        \* [Hooks -> [Keys -> item]]: window.localStorage / window.sessionStorage
    stValue,        \* [Hooks -> value]: storedValue, the hook's React state
    stPending,      \* [Hooks -> Seq(update)]: updates queued for the next render
    stScheduled,    \* [Hooks -> BOOLEAN]: a re-render of the component is scheduled
    stErrors,       \* [Hooks -> Nat]: number of onError calls
    stListening,    \* [Hooks -> BOOLEAN]: the 'storage' listener is registered
    stMountedRef,   \* [Hooks -> BOOLEAN]: mounted.current
    stSyncTabs,     \* option syncTabs
    stInitial,      \* argument initialValue (the values are alike: one of them is taken)
    stSeed,         \* the item at `key` before the hook was mounted
    stFull,         \* the store rejects writes (setItem throws)
    stThrown,       \* an exception escaped from the hook to its caller
    stExec,         \* [Hooks -> Seq(record)]: the updater runs of the latest step that ran one
    stSetErrors,    \* [Hooks -> Nat]: setValue updaters that failed so far
    stLastCall,     \* the latest call that set the state: "none", "setValue", "storage"
    stExpected,     \* the calls so far applied one after another, each at the time of its call
    stOps,          \* calls made so far
    \* ---- useQueue
    qQueue,         \* queue, the hook's React state
    qRendered,      \* the queue the latest render's closures (dequeue, clear, toArray) hold
    qPending,       \* Seq(update): setQueue updates queued for the next render
    qScheduled,     \* a re-render of the component is scheduled
    qMaxSize,       \* option maxSize: [set |-> FALSE] when left undefined
    qOnFull,        \* number of onFull calls
    qOnEmpty,       \* number of onEmpty calls
    qReturned,      \* what the latest dequeue() returned
    qExec,          \* Seq(record): the updater runs of the latest step that ran one
    qEnqCalls,      \* enqueue() calls so far
    qEnqRuns,       \* runs of enqueue's updater so far
    qFullRuns,      \* runs of enqueue's updater that found the queue at capacity
    qEmptied,       \* times the state went from a non-empty to an empty queue
    qNextItem,      \* the next item to enqueue: items are numbered in insertion order
    qOps,           \* calls made so far
    \* ---- useDebounce
    dbPhase,        \* "new" (not rendered yet), "mounted", "unmounted"
    dbValue,        \* argument value of the latest render
    dbDelay,        \* argument delay of the latest render
    dbImmediate,    \* argument immediate of the latest render
    dbDebounced,    \* debouncedValue, the hook's React state
    dbTimeoutRef,   \* timeoutRef.current
    dbHasCleanup,   \* the latest run of the effect returned a cleanup
    dbTimers,       \* the window's timers armed by the hook: [id, due, value]
    dbNextId,       \* the id window.setTimeout returns next
    dbNow,          \* the clock, in ms
    dbLastChange,   \* when value, delay or immediate changed last (or the hook was mounted)
    dbCommits,      \* timer callbacks run since dbLastChange
    dbFirst,        \* the value of the first render
    dbOps,          \* re-renders so far
    \* ---- useTimeout
    tmPhase,        \* "new" (not rendered yet), "mounted", "unmounted"
    tmCallback,     \* option callback of the latest render (callbacks are numbered)
    tmDelay,        \* option delay of the latest render: NullDelay or a number of ms
    tmAutoStart,    \* option autoStart of the latest render
    tmSavedCallback,\* savedCallback.current
    tmTimeoutId,    \* timeoutId.current
    tmIsPending,    \* isPending, the hook's React state
    tmTimers,       \* the window's timers armed by the hook: [id, due]
    tmNextId,       \* the id window.setTimeout returns next
    tmNow,          \* the clock, in ms
    tmCalls,        \* invocations of a callback so far
    tmLastCalled,   \* the callback invoked last
    tmArmed,        \* window.setTimeout calls so far
    tmNullAlways,   \* delay has been null in every render so far
    tmCalled,       \* which of start, cancel, reset the component has called
    tmArmedAt,      \* when window.setTimeout was called last
    tmBarrier,      \* the first id window.setTimeout had not given yet at the latest cancel() or unmount
    tmOps,          \* calls and re-renders so far
    \* ---- useInterval
    ivPhase,        \* "new" (not rendered yet), "mounted", "unmounted"
    ivCallback,     \* option callback of the latest render (callbacks are numbered)
    ivDelay,        \* option delay of the latest render: NullDelay or a number of ms
    ivRunImmediately, \* option runImmediately of the latest render
    ivAutoStart,    \* option autoStart of the latest render
    ivSavedCallback,\* savedCallback.current
    ivIntervalId,   \* intervalId.current
    ivIsRunning,    \* isRunning, the hook's React state
    ivTimers,       \* the window's interval timers armed by the hook: [id, due, period]
    ivNextId,       \* the id window.setInterval returns next
    ivNow,          \* the clock, in ms
    ivCalls,        \* invocations of a callback so far
    ivLastCalled,   \* the callback invoked last
    ivArmed,        \* window.setInterval calls so far
    ivArmedAt,      \* when window.setInterval was called last
    ivPaused,       \* pause() was called and neither start() nor restart() since
    ivChanged,      \* a re-render has changed an option
    ivCalled,       \* which of start, pause, restart the component has called
    ivOps,          \* calls and re-renders so far
    \* ---- useHandledInterval
    hiPhase,        \* "new" (not rendered yet), "mounted", "unmounted"
    hiCallback,     \* option callback of the latest render (callbacks are numbered)
    hiRandom,       \* option random
    hiAutoStart,    \* option autoStart of the latest render
    hiMinDelay,     \* option minDelay
    hiCallbackRef,  \* callbackRef.current
    hiCurrentDelay, \* currentDelay, React state, initially option delay
    hiIsRunning,    \* isRunning, React state
    hiIntervalId,   \* intervalId.current
    hiNextIntervalDelay, \* nextIntervalDelay.current
    hiTimers,       \* the window's interval timers armed by the hook
    hiNextId,       \* the id window.setInterval returns next
    hiNow,          \* the clock, in ms
    hiCalls,        \* invocations of a callback so far
    hiLastCalled,   \* the callback invoked last
    hiDraws,        \* Math.random() calls so far
    hiLastDraw,     \* what Math.random() returned last, in halves
    hiCalled,       \* which of start, pause, reset, setDelay the component has called
    hiOps,          \* calls and re-renders so far
    \* ---- useLockBodyScroll
    lbPhase,        \* "new" (not rendered yet), "mounted", "unmounted"
    lbLockImmediately, \* option lockImmediately
    lbPageYOffset,  \* window.pageYOffset
    lbBody,         \* document.body.style: overflow, position, top, width
    lbIsLocked,     \* isLocked, React state
    lbOriginalStyles, \* originalStyles, React state
    lbScrollPosition, \* scrollPosition, React state
    lbClosure,      \* the state the latest render's lock, unlock and toggle hold
    lbBefore,       \* document.body.style immediately before the mount
    lbLastCall,     \* what the component did last: "lock", "unlock", "toggle", "render"
    lbOps,          \* calls and re-renders so far
    \* ---- useLockBodyScroll, a second instance mounted beside the first
    l2Phase,        \* "new" (not rendered yet), "mounted", "unmounted"
    l2IsLocked,     \* isLocked of the second instance
    l2OriginalStyles, \* originalStyles of the second instance
    l2ScrollPosition, \* scrollPosition of the second instance
    l2Closure,      \* the state the second instance's latest lock, unlock and toggle hold
    l2LastCall,     \* what the second component did last
    l2Ops,          \* calls of the second instance so far
    \* ---- useCopyToClipboard
    ccPhase,        \* "new" (not rendered yet), "mounted", "unmounted"
    ccCopied,       \* state.copied
    ccError,        \* state.error: CcNoError for null, or the error thrown
    ccTimeoutRef,   \* timeoutRef.current
    ccTimers,       \* the window's timers armed by the hook: [id, due]
    ccNextId,       \* the id window.setTimeout returns next
    ccNow,          \* the clock, in ms
    ccWaiting,      \* copy() calls that wait for navigator.clipboard.writeText
    ccQuietSince,   \* when a write succeeded last with no copy(), reset() or failure since
    ccTicks,        \* clock steps so far
    ccOps,          \* copy() and reset() calls so far
    \* ---- useIdleness
    idPhase,        \* "new" (not rendered yet), "mounted", "unmounted"
    idTimeout,      \* option timeout, in ms
    idStartImmediately, \* option startImmediately
    idIdle,         \* idle, React state
    idIsMonitoring, \* isMonitoring, React state
    idTimerId,      \* timerId.current
    idMounted,      \* mounted.current
    idTimers,       \* the window's timers armed by the hook: [id, due, idle], idle being
                    \* the state the timer's setIdleState holds
    idNextId,       \* the id setTimeout returns next
    idClosure,      \* the state the latest render's start, stop and reset hold
    idListener,     \* the registered activity listener and the state its resetTimer holds
    idNotices,      \* the arguments of the onIdleChange calls so far, in order
    idNow,          \* the clock, in ms
    idSince,        \* when the hook was mounted or start(), reset() or an activity event came last
    idLastCall,     \* what came last: "start", "stop", "reset", "activity", "fire", "tick"
    idOps,          \* calls and activity events so far
    \* ---- useMediaQuery
    mqPhase,        \* "new" (not rendered yet), "mounted", "unmounted"
    mqQuery,        \* argument query of the latest render (queries are numbered)
    mqSsrSafe,      \* option ssrSafe
    mqShouldListen, \* shouldListen, React state
    mqMatches,      \* matches, React state
    mqMedia,        \* [MqQueries -> BOOLEAN]: whether the window matches each query
    mqListeners,    \* the change listeners registered on media-query lists: [id, query]
    mqEffect,       \* the listener the latest run of the listener effect added, or MqNoListener
    mqDeps,         \* query and shouldListen of the latest run of the listener effect
    mqRemoved,      \* [listener id -> times it was removed]
    mqMaxHeld,      \* the most listeners of the instance registered at one instant so far
    mqNextId,       \* listeners are numbered as they are added
    mqLastCall,     \* what came last: "start", "stop", "render", "change"
    mqOps,          \* calls, re-renders and media changes so far
    \* ---- useToggle
    tgPhase,        \* "new" (not rendered yet), "mounted", "unmounted"
    tgInitialValue, \* option initialValue
    tgPersist,      \* option persist
    tgValue,        \* value, React state (with the updates not rendered yet)
    tgRendered,     \* the value the latest render's toggle holds
    tgMounted,      \* mounted.current
    tgStore,        \* the localStorage item at storageKey, or TgAbsent
    tgSeed,         \* the item at storageKey before the hook was mounted
    tgOnChange,     \* the arguments of the onChange calls so far, in order
    tgWrites,       \* localStorage.setItem calls so far
    tgLastCall,     \* the latest call: "toggle", "setTrue", "setFalse", "setValue"
    tgOps,          \* calls so far
    \* ---- usePageLeave
    plPhase,        \* "new" (not rendered yet), "mounted", "unmounted"
    plThreshold,    \* option threshold
    plHasLeft,      \* hasLeft, React state
    plIsEnabled,    \* isEnabled, React state
    plListener,     \* the registered mouseout / mouseover handlers and the state they hold
    plDeps,         \* the state the latest render's handlers hold
    plOnLeave,      \* onLeave calls so far
    plOnReturn,     \* onReturn calls so far
    plLastCall,     \* what came last: "mouseout", "mouseover", "enable", "disable"
    plLastY,        \* clientY of the latest mouse-out
    plOps,          \* calls and events so far
    \* ---- useWindowWidth
    wwPhase,        \* "new" (not rendered yet), "mounted", "unmounted"
    wwDelay,        \* option debounceDelay, in ms
    wwWidth,        \* width, React state
    wwIsMonitoring, \* isMonitoring, React state
    wwTimeoutRef,   \* timeoutRef.current
    wwTimers,       \* the window's timers armed by the hook: [id, due]
    wwNextId,       \* the id window.setTimeout returns next
    wwListening,    \* handleResize is registered for 'resize'
    wwDeps,         \* isMonitoring of the latest run of the effect
    wwInnerWidth,   \* window.innerWidth
    wwOnChange,     \* the arguments of the onChange calls so far, in order
    wwUpdates,      \* setWidth calls so far
    wwNow,          \* the clock, in ms
    wwLastResize,   \* when 'resize' was dispatched last
    wwBurst,        \* a resize was handled and neither a timer fired nor stop() came since
    wwLastCall,     \* what came last: "resize", "start", "stop", "fire", "tick"
    wwOps,          \* calls and resize events so far
    \* ---- useBoolean
    boPhase,        \* "new" (not rendered yet), "mounted", "unmounted"
    boValue,        \* value, React state as of the latest render
    boPending,      \* updates queued by setValue since the latest render, in order
    boExpected,     \* the calls so far applied one after another to the initial value
    boBatch,        \* the calls of the batch the latest render closed, or of the open one
    boLastCall,     \* the latest step: "setTrue", "setFalse", "toggle", "setValue", "render"
    boOps           \* calls so far

stVars == <<stPhase, stStore, stValue, stPending, stScheduled, stErrors, stListening,
            stMountedRef, stSyncTabs, stInitial, stSeed, stFull, stThrown, stExec,
            stSetErrors, stLastCall, stExpected, stOps>>

qVars == <<qQueue, qRendered, qPending, qScheduled, qMaxSize, qOnFull, qOnEmpty, qReturned,
           qExec, qEnqCalls, qEnqRuns, qFullRuns, qEmptied, qNextItem, qOps>>

dbVars == <<dbPhase, dbValue, dbDelay, dbImmediate, dbDebounced, dbTimeoutRef, dbHasCleanup,
            dbTimers, dbNextId, dbNow, dbLastChange, dbCommits, dbFirst, dbOps>>

tmVars == <<tmPhase, tmCallback, tmDelay, tmAutoStart, tmSavedCallback, tmTimeoutId,
            tmIsPending, tmTimers, tmNextId, tmNow, tmCalls, tmLastCalled, tmArmed,
            tmNullAlways, tmCalled, tmArmedAt, tmBarrier, tmOps>>

ivVars == <<ivPhase, ivCallback, ivDelay, ivRunImmediately, ivAutoStart, ivSavedCallback,
            ivIntervalId, ivIsRunning, ivTimers, ivNextId, ivNow, ivCalls, ivLastCalled,
            ivArmed, ivArmedAt, ivPaused, ivChanged, ivCalled, ivOps>>

hiVars == <<hiPhase, hiCallback, hiRandom, hiAutoStart, hiMinDelay, hiCallbackRef,
            hiCurrentDelay, hiIsRunning, hiIntervalId, hiNextIntervalDelay, hiTimers,
            hiNextId, hiNow, hiCalls, hiLastCalled, hiDraws, hiLastDraw, hiCalled, hiOps>>

lbVars == <<lbPhase, lbLockImmediately, lbPageYOffset, lbBody, lbIsLocked, lbOriginalStyles,
            lbScrollPosition, lbClosure, lbBefore, lbLastCall, lbOps>>

l2Vars == <<l2Phase, l2IsLocked, l2OriginalStyles, l2ScrollPosition, l2Closure, l2LastCall,
            l2Ops>>

ccVars == <<ccPhase, ccCopied, ccError, ccTimeoutRef, ccTimers, ccNextId, ccNow, ccWaiting,
            ccQuietSince, ccTicks, ccOps>>

idVars == <<idPhase, idTimeout, idStartImmediately, idIdle, idIsMonitoring, idTimerId,
            idMounted, idTimers, idNextId, idClosure, idListener, idNotices, idNow, idSince,
            idLastCall, idOps>>

mqVars == <<mqPhase, mqQuery, mqSsrSafe, mqShouldListen, mqMatches, mqMedia, mqListeners,
            mqEffect, mqDeps, mqRemoved, mqMaxHeld, mqNextId, mqLastCall, mqOps>>

tgVars == <<tgPhase, tgInitialValue, tgPersist, tgValue, tgRendered, tgMounted, tgStore,
            tgSeed, tgOnChange, tgWrites, tgLastCall, tgOps>>

plVars == <<plPhase, plThreshold, plHasLeft, plIsEnabled, plListener, plDeps, plOnLeave,
            plOnReturn, plLastCall, plLastY, plOps>>

wwVars == <<wwPhase, wwDelay, wwWidth, wwIsMonitoring, wwTimeoutRef, wwTimers, wwNextId,
            wwListening, wwDeps, wwInnerWidth, wwOnChange, wwUpdates, wwNow, wwLastResize,
            wwBurst, wwLastCall, wwOps>>

boVars == <<boPhase, boValue, boPending, boExpected, boBatch, boLastCall, boOps>>

vars == <<stVars, qVars, dbVars, tmVars, ivVars, hiVars, lbVars, l2Vars, ccVars, idVars, mqVars, tgVars, plVars, wwVars, boVars>>

\* A hook that is not part of a specification stays as it is before its first render.
StIdle ==
    /\ stPhase = "idle" /\ stStore = <<>> /\ stValue = <<>> /\ stPending = <<>>
    /\ stScheduled = <<>> /\ stErrors = <<>> /\ stListening = <<>> /\ stMountedRef = <<>>
    /\ stSyncTabs = FALSE /\ stInitial = 0 /\ stSeed = "" /\ stFull = FALSE
    /\ stThrown = FALSE /\ stExec = <<>> /\ stSetErrors = <<>> /\ stLastCall = "none"
    /\ stExpected = 0 /\ stOps = 0

QIdle ==
    /\ qQueue = <<>> /\ qRendered = <<>> /\ qPending = <<>> /\ qScheduled = FALSE
    /\ qMaxSize = [set |-> FALSE, n |-> 0] /\ qOnFull = 0 /\ qOnEmpty = 0 /\ qReturned = 0
    /\ qExec = <<>> /\ qEnqCalls = 0 /\ qEnqRuns = 0 /\ qFullRuns = 0 /\ qEmptied = 0
    /\ qNextItem = 0 /\ qOps = 0

DbIdle ==
    /\ dbPhase = "idle" /\ dbValue = 0 /\ dbDelay = 0 /\ dbImmediate = FALSE
    /\ dbDebounced = 0 /\ dbTimeoutRef = 0 /\ dbHasCleanup = FALSE /\ dbTimers = {}
    /\ dbNextId = 0 /\ dbNow = 0 /\ dbLastChange = 0 /\ dbCommits = 0 /\ dbFirst = 0
    /\ dbOps = 0

TmIdle ==
    /\ tmPhase = "idle" /\ tmCallback = 0 /\ tmDelay = 0 /\ tmAutoStart = FALSE
    /\ tmSavedCallback = 0 /\ tmTimeoutId = 0 /\ tmIsPending = FALSE /\ tmTimers = {}
    /\ tmNextId = 0 /\ tmNow = 0 /\ tmCalls = 0 /\ tmLastCalled = 0 /\ tmArmed = 0
    /\ tmNullAlways = FALSE /\ tmCalled = {} /\ tmArmedAt = 0 /\ tmBarrier = 0
    /\ tmOps = 0

IvIdle ==
    /\ ivPhase = "idle" /\ ivCallback = 0 /\ ivDelay = 0 /\ ivRunImmediately = FALSE
    /\ ivAutoStart = FALSE /\ ivSavedCallback = 0 /\ ivIntervalId = 0
    /\ ivIsRunning = FALSE /\ ivTimers = {} /\ ivNextId = 0 /\ ivNow = 0 /\ ivCalls = 0
    /\ ivLastCalled = 0 /\ ivArmed = 0 /\ ivArmedAt = 0 /\ ivPaused = FALSE
    /\ ivChanged = FALSE /\ ivCalled = {} /\ ivOps = 0

HiIdle ==
    /\ hiPhase = "idle" /\ hiCallback = 0 /\ hiRandom = FALSE /\ hiAutoStart = FALSE
    /\ hiMinDelay = 0 /\ hiCallbackRef = 0 /\ hiCurrentDelay = 0 /\ hiIsRunning = FALSE
    /\ hiIntervalId = 0 /\ hiNextIntervalDelay = 0 /\ hiTimers = {} /\ hiNextId = 0
    /\ hiNow = 0 /\ hiCalls = 0 /\ hiLastCalled = 0 /\ hiDraws = 0 /\ hiLastDraw = 0
    /\ hiCalled = {} /\ hiOps = 0

LbIdle ==
    /\ lbPhase = "idle" /\ lbLockImmediately = FALSE /\ lbPageYOffset = 0 /\ lbBody = <<>>
    /\ lbIsLocked = FALSE /\ lbOriginalStyles = <<>> /\ lbScrollPosition = 0
    /\ lbClosure = <<>> /\ lbBefore = <<>> /\ lbLastCall = "none" /\ lbOps = 0

L2Idle ==
    /\ l2Phase = "idle" /\ l2IsLocked = FALSE /\ l2OriginalStyles = <<>>
    /\ l2ScrollPosition = 0 /\ l2Closure = <<>> /\ l2LastCall = "none" /\ l2Ops = 0

CcIdle ==
    /\ ccPhase = "idle" /\ ccCopied = FALSE /\ ccError = 0 /\ ccTimeoutRef = 0
    /\ ccTimers = {} /\ ccNextId = 0 /\ ccNow = 0 /\ ccWaiting = 0 /\ ccQuietSince = 0
    /\ ccTicks = 0 /\ ccOps = 0

IdIdle ==
    /\ idPhase = "idle" /\ idTimeout = 0 /\ idStartImmediately = FALSE /\ idIdle = FALSE
    /\ idIsMonitoring = FALSE /\ idTimerId = 0 /\ idMounted = FALSE /\ idTimers = {}
    /\ idNextId = 0 /\ idClosure = <<>> /\ idListener = <<>> /\ idNotices = <<>>
    /\ idNow = 0 /\ idSince = 0 /\ idLastCall = "none" /\ idOps = 0

MqIdle ==
    /\ mqPhase = "idle" /\ mqQuery = 0 /\ mqSsrSafe = FALSE /\ mqShouldListen = FALSE
    /\ mqMatches = FALSE /\ mqMedia = <<>> /\ mqListeners = {} /\ mqEffect = 0
    /\ mqDeps = <<>> /\ mqRemoved = <<>> /\ mqMaxHeld = 0 /\ mqNextId = 0
    /\ mqLastCall = "none" /\ mqOps = 0

TgIdle ==
    /\ tgPhase = "idle" /\ tgInitialValue = FALSE /\ tgPersist = FALSE /\ tgValue = FALSE
    /\ tgRendered = FALSE /\ tgMounted = FALSE /\ tgStore = "" /\ tgSeed = ""
    /\ tgOnChange = <<>> /\ tgWrites = 0 /\ tgLastCall = "none" /\ tgOps = 0

PlIdle ==
    /\ plPhase = "idle" /\ plThreshold = 0 /\ plHasLeft = FALSE /\ plIsEnabled = FALSE
    /\ plListener = <<>> /\ plDeps = <<>> /\ plOnLeave = 0 /\ plOnReturn = 0
    /\ plLastCall = "none" /\ plLastY = 0 /\ plOps = 0

WwIdle ==
    /\ wwPhase = "idle" /\ wwDelay = 0 /\ wwWidth = 0 /\ wwIsMonitoring = FALSE
    /\ wwTimeoutRef = 0 /\ wwTimers = {} /\ wwNextId = 0 /\ wwListening = FALSE
    /\ wwDeps = FALSE /\ wwInnerWidth = 0 /\ wwOnChange = <<>> /\ wwUpdates = 0
    /\ wwNow = 0 /\ wwLastResize = 0 /\ wwBurst = FALSE /\ wwLastCall = "none" /\ wwOps = 0

BoIdle ==
    /\ boPhase = "idle" /\ boValue = FALSE /\ boPending = <<>> /\ boExpected = FALSE
    /\ boBatch = <<>> /\ boLastCall = "none" /\ boOps = 0

\* The other hooks' variables, which the steps of a hook leave alone.
StOthers == <<qVars, dbVars, tmVars, ivVars, hiVars, lbVars, l2Vars, ccVars, idVars, mqVars, tgVars, plVars, wwVars, boVars>>
QOthers == <<stVars, dbVars, tmVars, ivVars, hiVars, lbVars, l2Vars, ccVars, idVars, mqVars, tgVars, plVars, wwVars, boVars>>
DbOthers == <<stVars, qVars, tmVars, ivVars, hiVars, lbVars, l2Vars, ccVars, idVars, mqVars, tgVars, plVars, wwVars, boVars>>
TmOthers == <<stVars, qVars, dbVars, ivVars, hiVars, lbVars, l2Vars, ccVars, idVars, mqVars, tgVars, plVars, wwVars, boVars>>
IvOthers == <<stVars, qVars, dbVars, tmVars, hiVars, lbVars, l2Vars, ccVars, idVars, mqVars, tgVars, plVars, wwVars, boVars>>
HiOthers == <<stVars, qVars, dbVars, tmVars, ivVars, lbVars, l2Vars, ccVars, idVars, mqVars, tgVars, plVars, wwVars, boVars>>
LbOthers == <<stVars, qVars, dbVars, tmVars, ivVars, hiVars, l2Vars, ccVars, idVars, mqVars, tgVars, plVars, wwVars, boVars>>
L2Others == <<stVars, qVars, dbVars, tmVars, ivVars, hiVars, ccVars, idVars, mqVars, tgVars, plVars, wwVars, boVars>>
CcOthers == <<stVars, qVars, dbVars, tmVars, ivVars, hiVars, lbVars, l2Vars, idVars, mqVars, tgVars, plVars, wwVars, boVars>>
IdOthers == <<stVars, qVars, dbVars, tmVars, ivVars, hiVars, lbVars, l2Vars, ccVars, mqVars, tgVars, plVars, wwVars, boVars>>
MqOthers == <<stVars, qVars, dbVars, tmVars, ivVars, hiVars, lbVars, l2Vars, ccVars, idVars, tgVars, plVars, wwVars, boVars>>
TgOthers == <<stVars, qVars, dbVars, tmVars, ivVars, hiVars, lbVars, l2Vars, ccVars, idVars, mqVars, plVars, wwVars, boVars>>
PlOthers == <<stVars, qVars, dbVars, tmVars, ivVars, hiVars, lbVars, l2Vars, ccVars, idVars, mqVars, tgVars, wwVars, boVars>>
WwOthers == <<stVars, qVars, dbVars, tmVars, ivVars, hiVars, lbVars, l2Vars, ccVars, idVars, mqVars, tgVars, plVars, boVars>>
BoOthers == <<stVars, qVars, dbVars, tmVars, ivVars, hiVars, lbVars, l2Vars, ccVars, idVars, mqVars, tgVars, plVars, wwVars>>

\* -------------------------------------------------------------------
\* useLocalStorage (src/unnamed/part_016) and useSessionStorage
\* -------------------------------------------------------------------

Hooks == {"local", "session"}
Key == "test-key"
OtherKey == "different-key"
Keys == {Key, OtherKey}

\* getItem's answer for a key without an entry.
Null == "<null>"

Values == 0 .. MaxVal
\* A value JSON.stringify throws on (a BigInt, a cyclic object).
Unserializable == MaxVal + 1

Digits == <<"0", "1", "2", "3", "4", "5", "6", "7", "8", "9">>
ToJSON(v) == Digits[v + 1]
JSONTexts == {ToJSON(v) : v \in Values}
\* What a store entry or a notification may carry: JSON, text that is no JSON, the empty text.
Texts == JSONTexts \cup {"invalid json", ""}

\* serializer = JSON.stringify
Serializer(v) ==
    IF v \in Values THEN [ok |-> TRUE, text |-> ToJSON(v)]
    ELSE [ok |-> FALSE, text |-> ""]

\* deserializer = JSON.parse: throws on text that is no JSON (the empty text included)
Deserializer(text) ==
    IF text \in JSONTexts
    THEN [ok |-> TRUE, val |-> CHOOSE v \in Values : ToJSON(v) = text]
    ELSE [ok |-> FALSE, val |-> 0]

\* JavaScript truthiness of getItem's answer: null and '' are falsy.
Truthy(item) == item # Null /\ item # ""

\* The updater functions a caller may pass to setValue.
ApplyFn(fn, prev) ==
    IF fn = "inc" THEN (prev + 1) % (MaxVal + 1) ELSE prev

\* The updates setStoredValue may be given: setValue's updater closed over a direct
\* value ("value", arg the value) or over a caller's function ("fn", arg unused), and
\* handleStorageChange's direct value ("sync", arg the value).
SetValueUpdates ==
    [type : {"value"}, arg : Values \cup {Unserializable}] \cup [type : {"fn"}, arg : {0}]

\* ---- state initializers: the result is the initial state, the store after the
\* ---- initializer and the number of onError calls it made.

\* useLocalStorage: useState(() => { try { item = getItem(key); if (item) return
\* deserializer(item); setItem(key, serializer(initialValue)); return initialValue }
\* catch (error) { onError(error); return initialValue } })
LocalInitializer(store, initialValue, full) ==
    LET item == store[Key]
        d == Deserializer(item)
        s == Serializer(initialValue)
    IN  IF Truthy(item)
        THEN IF d.ok THEN [value |-> d.val, store |-> store, errs |-> 0, threw |-> FALSE]
                     ELSE [value |-> initialValue, store |-> store, errs |-> 1, threw |-> FALSE]
        ELSE IF s.ok /\ ~full
             THEN [value |-> initialValue, store |-> [store EXCEPT ![Key] = s.text], errs |-> 0, threw |-> FALSE]
             ELSE [value |-> initialValue, store |-> store, errs |-> 1, threw |-> FALSE]

\* useSessionStorage: useState(() => { try { item = getItem(key); return item ?
\* deserializer(item) : initialValue } catch (error) { onError(error); return initialValue } })
SessionInitializer(store, initialValue, full) ==
    LET item == store[Key]
        d == Deserializer(item)
    IN  IF Truthy(item)
        THEN IF d.ok THEN [value |-> d.val, store |-> store, errs |-> 0, threw |-> FALSE]
                     ELSE [value |-> initialValue, store |-> store, errs |-> 1, threw |-> FALSE]
        ELSE [value |-> initialValue, store |-> store, errs |-> 0, threw |-> FALSE]

Initializer(h, store, initialValue, full) ==
    IF h = "local" THEN LocalInitializer(store, initialValue, full)
    ELSE SessionInitializer(store, initialValue, full)

\* ---- setValue's updater: setStoredValue((prev) => { try { newValue = value instanceof
\* ---- Function ? value(prev) : value; setItem(key, serializer(newValue)); return newValue }
\* ---- catch (error) { onError(error); return prev } })

\* Mutant: the entry is written from the state before the update.
LocalSetValueUpdater_StaleWrite(upd, prev, store, full) ==
    LET newValue == IF upd.type = "fn" THEN ApplyFn("inc", prev) ELSE upd.arg
        s == Serializer(newValue)
    IN  IF s.ok /\ ~full
        THEN [value |-> newValue, store |-> [store EXCEPT ![Key] = Serializer(prev).text],
              errs |-> 0, threw |-> FALSE]
        ELSE [value |-> prev, store |-> store, errs |-> 1, threw |-> FALSE]

LocalSetValueUpdater(upd, prev, store, full) ==
    LET newValue == IF upd.type = "fn" THEN ApplyFn("inc", prev) ELSE upd.arg
        s == Serializer(newValue)
    IN  IF s.ok /\ ~full
        THEN [value |-> newValue, store |-> [store EXCEPT ![Key] = s.text], errs |-> 0, threw |-> FALSE]
        ELSE [value |-> prev, store |-> store, errs |-> 1, threw |-> FALSE]

\* Mutant: the new value is committed although the write failed.
SessionSetValueUpdater_CommitOnError(upd, prev, store, full) ==
    LET newValue == IF upd.type = "fn" THEN ApplyFn("inc", prev) ELSE upd.arg
        s == Serializer(newValue)
    IN  IF s.ok /\ ~full
        THEN [value |-> newValue, store |-> [store EXCEPT ![Key] = s.text], errs |-> 0,
              threw |-> FALSE]
        ELSE [value |-> newValue, store |-> store, errs |-> 1, threw |-> FALSE]

\* Mutant: the state is updated and the store is never written.
SessionSetValueUpdater_NoWrite(upd, prev, store, full) ==
    LET newValue == IF upd.type = "fn" THEN ApplyFn("inc", prev) ELSE upd.arg
        s == Serializer(newValue)
    IN  IF s.ok /\ ~full
        THEN [value |-> newValue, store |-> store, errs |-> 0, threw |-> FALSE]
        ELSE [value |-> prev, store |-> store, errs |-> 1, threw |-> FALSE]

SessionSetValueUpdater(upd, prev, store, full) ==
    LET newValue == IF upd.type = "fn" THEN ApplyFn("inc", prev) ELSE upd.arg
        s == Serializer(newValue)
    IN  IF s.ok /\ ~full
        THEN [value |-> newValue, store |-> [store EXCEPT ![Key] = s.text], errs |-> 0, threw |-> FALSE]
        ELSE [value |-> prev, store |-> store, errs |-> 1, threw |-> FALSE]

\* One update of the hook's state as React applies it: a direct value replaces the
\* state, an updater is called with the state left by the update before it.
ApplyUpdate(h, upd, prev, store, full) ==
    IF upd.type = "sync" THEN [value |-> upd.arg, store |-> store, errs |-> 0, threw |-> FALSE]
    ELSE IF h = "local" THEN LocalSetValueUpdater(upd, prev, store, full)
    ELSE SessionSetValueUpdater(upd, prev, store, full)

\* The record of one run of an update: what it was given and what it left.
ExecRecord(upd, prev, store, full, r) ==
    [type |-> upd.type, arg |-> upd.arg, prev |-> prev, full |-> full, before |-> store[Key],
     value |-> r.value, after |-> r.store[Key], errs |-> r.errs]

\* The hook's own part of the state, as one record.
Slice(h) ==
    [value |-> stValue[h], store |-> stStore[h], errs |-> stErrors[h],
     pending |-> stPending[h], scheduled |-> stScheduled[h], threw |-> stThrown,
     exec |-> <<>>, setErrs |-> stSetErrors[h]]

\* The queued updates applied in order (React's render of the state hook).
RECURSIVE RunUpdates(_, _, _, _)
RunUpdates(h, s, pending, full) ==
    IF pending = <<>> THEN [s EXCEPT !.pending = <<>>, !.scheduled = FALSE]
    ELSE LET upd == Head(pending)
             r == ApplyUpdate(h, upd, s.value, s.store, full)
         IN  RunUpdates(h,
                        [s EXCEPT !.value = r.value, !.store = r.store, !.errs = @ + r.errs,
                                  !.threw = @ \/ r.threw,
                                  !.exec = Append(@, ExecRecord(upd, s.value, s.store, full, r)),
                                  !.setErrs = IF upd.type = "sync" THEN @ ELSE @ + r.errs],
                        Tail(pending), full)

\* setStoredValue(upd): computed at once when no render is scheduled, and then
\* a render is scheduled only if the state changed; queued for the render otherwise.
Dispatch(h, s, upd, full) ==
    IF ~s.scheduled
    THEN [RunUpdates(h, s, <<upd>>, full) EXCEPT
             !.scheduled = (ApplyUpdate(h, upd, s.value, s.store, full).value # s.value)]
    ELSE [s EXCEPT !.pending = Append(@, upd), !.scheduled = TRUE]

\* The state the next render will show.
Settled(h) == RunUpdates(h, Slice(h), stPending[h], stFull).value

\* handleStorageChange(event): if (event.key === key && event.newValue !== null &&
\* mounted.current) { try { setStoredValue(deserializer(event.newValue)) } catch (error)
\* { onError(error) } }
\* Mutant: the notification's key is not compared with the hook's key.
HandleStorageChange_AnyKey(h, s, mountedRef, evKey, evNewValue, full) ==
    LET d == Deserializer(evNewValue)
    IN  IF evNewValue # Null /\ mountedRef
        THEN IF d.ok THEN Dispatch(h, s, [type |-> "sync", arg |-> d.val], full)
                     ELSE [s EXCEPT !.errs = @ + 1]
        ELSE s

HandleStorageChange(h, s, mountedRef, evKey, evNewValue, full) ==
    LET d == Deserializer(evNewValue)
    IN  IF evKey = Key /\ evNewValue # Null /\ mountedRef
        THEN IF d.ok THEN Dispatch(h, s, [type |-> "sync", arg |-> d.val], full)
                     ELSE [s EXCEPT !.errs = @ + 1]
        ELSE s

\* The hooks' variables after a step that leaves hook h with the record r[h].
StCommit(r) ==
    /\ stValue' = [h \in Hooks |-> r[h].value]
    /\ stStore' = [h \in Hooks |-> r[h].store]
    /\ stErrors' = [h \in Hooks |-> r[h].errs]
    /\ stPending' = [h \in Hooks |-> r[h].pending]
    /\ stScheduled' = [h \in Hooks |-> r[h].scheduled]
    /\ stSetErrors' = [h \in Hooks |-> r[h].setErrs]
    /\ stThrown' = \E h \in Hooks : r[h].threw
    /\ stExec' = [h \in Hooks |-> IF r[h].exec = <<>> THEN stExec[h] ELSE r[h].exec]

\* ---- actions

StInit ==
    /\ stPhase = "new"
    /\ stSeed \in Texts \cup {Null}
    /\ stStore = [h \in Hooks |-> [k \in Keys |-> IF k = Key THEN stSeed ELSE Null]]
    /\ stInitial = 0
    /\ stSyncTabs \in BOOLEAN
    /\ stFull \in BOOLEAN
    /\ stValue = [h \in Hooks |-> stInitial]
    /\ stPending = [h \in Hooks |-> <<>>]
    /\ stScheduled = [h \in Hooks |-> FALSE]
    /\ stErrors = [h \in Hooks |-> 0]
    /\ stListening = [h \in Hooks |-> FALSE]
    /\ stMountedRef = [h \in Hooks |-> TRUE]
    /\ stThrown = FALSE
    /\ stExec = [h \in Hooks |-> <<>>]
    /\ stSetErrors = [h \in Hooks |-> 0]
    /\ stLastCall = "none"
    /\ stExpected = stInitial
    /\ stOps = 0
    /\ QIdle /\ DbIdle /\ TmIdle /\ IvIdle /\ HiIdle /\ LbIdle /\ L2Idle
    /\ CcIdle /\ IdIdle /\ MqIdle /\ TgIdle /\ PlIdle /\ WwIdle /\ BoIdle

\* First render and commit: the state initializer runs, then the effects: the
\* 'storage' listener is added if syncTabs.
StMount ==
    /\ stPhase = "new"
    /\ stPhase' = "mounted"
    /\ LET r == [h \in Hooks |-> Initializer(h, stStore[h], stInitial, stFull)]
       IN  /\ stValue' = [h \in Hooks |-> r[h].value]
           /\ stStore' = [h \in Hooks |-> r[h].store]
           /\ stErrors' = [h \in Hooks |-> stErrors[h] + r[h].errs]
           /\ stThrown' = \E h \in Hooks : r[h].threw
           /\ stExpected' = r["local"].value
    /\ stListening' = [h \in Hooks |-> stSyncTabs]
    /\ UNCHANGED <<stPending, stScheduled, stMountedRef, stSyncTabs, stInitial, stSeed,
                   stFull, stExec, stSetErrors, stLastCall, stOps>>
    /\ UNCHANGED StOthers

\* setValue(value) or setValue(updater), called on both hooks.
SetValue(upd) ==
    /\ stPhase = "mounted"
    /\ stOps < MaxOps
    /\ StCommit([h \in Hooks |-> Dispatch(h, Slice(h), upd, stFull)])
    /\ stExpected' = IF upd.type = "fn" THEN ApplyFn("inc", stExpected) ELSE upd.arg
    /\ stLastCall' = "setValue"
    /\ stOps' = stOps + 1
    /\ UNCHANGED <<stPhase, stListening, stMountedRef, stSyncTabs, stInitial, stSeed, stFull>>
    /\ UNCHANGED StOthers

StSetValue == \E upd \in SetValueUpdates : SetValue(upd)

\* The scheduled re-render: the queued updates are applied in order.
StRender ==
    /\ stPhase = "mounted"
    /\ \E h \in Hooks : stScheduled[h]
    /\ StCommit([h \in Hooks |-> RunUpdates(h, Slice(h), stPending[h], stFull)])
    /\ UNCHANGED <<stPhase, stListening, stMountedRef, stSyncTabs, stInitial, stSeed,
                   stFull, stLastCall, stExpected, stOps>>
    /\ UNCHANGED StOthers

\* The window dispatches a 'storage' event; only registered listeners are called.
StorageEvent(evKey, evNewValue) ==
    /\ stPhase # "new"
    /\ stOps < MaxOps
    /\ StCommit([h \in Hooks |->
                    IF stListening[h]
                    THEN HandleStorageChange(h, Slice(h), stMountedRef[h], evKey, evNewValue,
                                             stFull)
                    ELSE Slice(h)])
    /\ stLastCall' = IF stListening["local"] /\ evKey = Key /\ Deserializer(evNewValue).ok
                     THEN "storage" ELSE stLastCall
    /\ stExpected' = IF stListening["local"] /\ evKey = Key /\ Deserializer(evNewValue).ok
                     THEN Deserializer(evNewValue).val ELSE stExpected
    /\ stOps' = stOps + 1
    /\ UNCHANGED <<stPhase, stListening, stMountedRef, stSyncTabs, stInitial, stSeed, stFull>>
    /\ UNCHANGED StOthers

\* The notifications dispatched: any new value for the hook's key, one for another key.
StorageEvents ==
    {<<Key, nv>> : nv \in Texts \cup {Null}} \cup {<<OtherKey, ToJSON(0)>>}

StStorageEvent == \E ev \in StorageEvents : StorageEvent(ev[1], ev[2])

\* Unmount: the effects' cleanups run: the listener is removed, mounted.current = false.
\* Updates still queued are dropped with the component.
StUnmount ==
    /\ stPhase = "mounted"
    /\ stPhase' = "unmounted"
    /\ stListening' = [h \in Hooks |-> FALSE]
    /\ stMountedRef' = [h \in Hooks |-> FALSE]
    /\ stPending' = [h \in Hooks |-> <<>>]
    /\ stScheduled' = [h \in Hooks |-> FALSE]
    /\ UNCHANGED <<stStore, stValue, stErrors, stSyncTabs, stInitial, stSeed, stFull,
                   stThrown, stExec, stSetErrors, stLastCall, stExpected, stOps>>
    /\ UNCHANGED StOthers

\* The platform's store starts or stops rejecting writes (quota, private mode).
StQuotaChange ==
    /\ stPhase = "mounted"
    /\ stOps < MaxOps
    /\ stFull' = ~stFull
    /\ stOps' = stOps + 1
    /\ UNCHANGED <<stPhase, stStore, stValue, stPending, stScheduled, stErrors, stListening,
                   stMountedRef, stSyncTabs, stInitial, stSeed, stThrown, stExec, stSetErrors,
                   stLastCall, stExpected>>
    /\ UNCHANGED StOthers

StNext ==
    \/ StMount
    \/ StSetValue
    \/ StRender
    \/ StStorageEvent
    \/ StUnmount
    \/ StQuotaChange

SpecStorage == StInit /\ [][StNext]_vars


\* ---- claims about useLocalStorage / useSessionStorage

\* After the latest render, nothing is queued or scheduled.
StSettled(h) == stPhase = "mounted" /\ ~stScheduled[h] /\ stPending[h] = <<>>

\* C1: useLocalStorage: after any sequence of setValue calls (values or updaters, several
\* in one batch included) whose writes all succeeded, once rendered, the entry at `key`
\* is serializer(state) and the state is the calls applied in order, each updater
\* receiving the value the call before it produced.
C1_SetValueWritesThrough ==
    (StSettled("local") /\ stLastCall = "setValue" /\ stSetErrors["local"] = 0)
        => /\ stStore["local"][Key] = Serializer(stValue["local"]).text
           /\ stValue["local"] = stExpected

\* C1 witness: a batch of three calls, an updater among the queued ones, has been rendered.
C1_Witness ==
    /\ StSettled("local") /\ stLastCall = "setValue" /\ stSetErrors["local"] = 0
    /\ Len(stExec["local"]) = 2
    /\ stExec["local"][2].type = "fn"
    /\ stValue["local"] # stInitial

\* C2 (as claimed): mounted on an entry the deserializer rejects, useLocalStorage starts
\* from initialValue, has called onError exactly once, has thrown nothing and has left
\* the entry as it was.
C2_RejectedEntryKept ==
    (stPhase = "mounted" /\ stOps = 0 /\ stSeed # Null /\ ~Deserializer(stSeed).ok)
        => /\ stValue["local"] = stInitial
           /\ stErrors["local"] = 1
           /\ stStore["local"][Key] = stSeed
           /\ ~stThrown

\* C33 (as claimed): useLocalStorage's initialization treats every existing entry as
\* present: for any text stored at the key, the empty text included, the initial state
\* is what the deserializer makes of the text and nothing is written to the store; only
\* a key without an entry has serializer(initialValue) written.
C33_ExistingEntryAdopted ==
    (stPhase = "mounted" /\ stOps = 0 /\ stSeed # Null)
        => /\ stStore["local"][Key] = stSeed
           /\ Deserializer(stSeed).ok => stValue["local"] = Deserializer(stSeed).val

\* The value a run of setValue's updater computed before writing it.
NewValueOf(e) == IF e.type = "fn" THEN ApplyFn("inc", e.prev) ELSE e.arg

\* C3: a run of setValue's updater whose serialization or store write throws calls
\* onError once, returns the previous state and leaves the entry unchanged, in both
\* hooks; nothing is thrown to the caller; and the hook's state and entry are those the
\* latest run left.
C3_FailedWriteKeepsState ==
    /\ ~stThrown
    /\ \A h \in Hooks :
          /\ \A i \in 1 .. Len(stExec[h]) :
                LET e == stExec[h][i]
                IN  (e.type # "sync" /\ (e.full \/ ~Serializer(NewValueOf(e)).ok))
                        => (e.value = e.prev /\ e.after = e.before /\ e.errs = 1)
          /\ stExec[h] # <<>> =>
                /\ stExec[h][Len(stExec[h])].value = stValue[h]
                /\ stExec[h][Len(stExec[h])].after = stStore[h][Key]

\* C3 witness: in both hooks the write of a new, serializable value was rejected by the
\* store, and in the same render, before it, an unserializable value was rejected.
C3_Witness ==
    \A h \in Hooks :
        /\ Len(stExec[h]) = 2
        /\ stExec[h][1].arg = Unserializable
        /\ stExec[h][2].type = "value" /\ stExec[h][2].full
        /\ stExec[h][2].arg \in Values /\ stExec[h][2].arg # stExec[h][2].prev
        /\ stErrors[h] >= 2

\* C4: a storage notification changes useLocalStorage's state only if syncTabs is set,
\* the instance is mounted, the key is the hook's, the new value is not null and the
\* deserializer accepts it: the state then becomes the deserialized value; otherwise
\* state and queue are unchanged, and onError is called only for a rejected value; once
\* unmounted, no step changes the state.
C4_SyncOnlyWhenEligible ==
    [][/\ \A ev \in StorageEvents :
              StorageEvent(ev[1], ev[2]) =>
                  LET d == Deserializer(ev[2])
                      active == stSyncTabs /\ stPhase = "mounted" /\ ev[1] = Key /\ ev[2] # Null
                  IN  IF active /\ d.ok
                      THEN Settled("local")' = d.val /\ stErrors'["local"] = stErrors["local"]
                      ELSE /\ stValue'["local"] = stValue["local"]
                           /\ stPending'["local"] = stPending["local"]
                           /\ stErrors'["local"] = stErrors["local"] + (IF active THEN 1 ELSE 0)
       /\ stPhase = "unmounted" => (stValue' = stValue /\ stPending' = stPending)
      ]_vars

\* C4 witness: a notification was adopted, another was rejected with onError, and the
\* instance has been unmounted since.
C4_Witness ==
    /\ stPhase = "unmounted" /\ stLastCall = "storage" /\ stOps = MaxOps
    /\ stSeed = Null /\ stSetErrors["local"] = 0
    /\ stValue["local"] # stInitial
    /\ stErrors["local"] = 1

\* C5 (as claimed): the two hooks, driven alike from the same store contents, have the
\* same state and the same store contents; mounting useSessionStorage on an absent key
\* writes serializer(initialValue) into the session store.
C5_IdenticalContract ==
    stPhase # "new" =>
        /\ stValue["local"] = stValue["session"]
        /\ stStore["local"] = stStore["session"]
        /\ (stSeed = Null /\ stOps = 0 /\ ~stFull)
               => stStore["session"][Key] = Serializer(stInitial).text

\* C5 (amended): the hooks have the same state and queue; their stores agree unless the
\* key was absent or empty at mount and nothing was written since: then the session
\* store still holds what it held before the mount, which only useLocalStorage replaced
\* by serializer(initialValue).
C5_SameStateStoresAgreeOnceWritten ==
    stPhase # "new" =>
        /\ stValue["local"] = stValue["session"]
        /\ stPending["local"] = stPending["session"]
        /\ \/ stStore["local"] = stStore["session"]
           \/ /\ ~Truthy(stSeed)
              /\ stStore["session"][Key] = stSeed
              /\ stStore["local"][Key] = Serializer(stInitial).text
        /\ (stSeed = Null /\ stOps = 0) => stStore["session"][Key] = Null

\* C5 witness: mounted on an absent key, the stores differed until a setValue wrote both.
C5_Witness ==
    /\ stSeed = Null /\ StSettled("session") /\ stLastCall = "setValue"
    /\ stStore["session"][Key] # Null
    /\ stStore["session"][Key] # Serializer(stInitial).text
    /\ stStore["local"] = stStore["session"]


\* -------------------------------------------------------------------
\* useQueue (src/src/hooks/useQueue.ts)
\* -------------------------------------------------------------------

\* Calls of the queue's operations per behaviour.
QMaxOps == 4
\* The largest maxSize tried, and the longest initialValues.
QMaxSize == 2

\* dequeue()'s answer on an empty queue; the items are 1, 2, ...
Undefined == 0

QMaxSizes == {[set |-> FALSE, n |-> 0]} \cup [set : {TRUE}, n : 0 .. QMaxSize]

\* `maxSize && ...`: an undefined maxSize and 0 are falsy.
QTruthy(maxSize) == maxSize.set /\ maxSize.n # 0

\* The result of an update of the queue state: the new queue, the callbacks fired, and
\* whether the updater returned the very array it was given (React then skips the render).

\* Mutant: the capacity test is off by one.
EnqueueUpdater_OffByOne(q, item, maxSize) ==
    IF QTruthy(maxSize) /\ Len(q) > maxSize.n
    THEN [queue |-> q, onFull |-> 1, onEmpty |-> 0, same |-> TRUE]
    ELSE [queue |-> Append(q, item), onFull |-> 0, onEmpty |-> 0, same |-> FALSE]

\* enqueue: setQueue((q) => { if (maxSize && q.length >= maxSize) { onFull?.(); return q }
\* return [...q, item] })
EnqueueUpdater(q, item, maxSize) ==
    IF QTruthy(maxSize) /\ Len(q) >= maxSize.n
    THEN [queue |-> q, onFull |-> 1, onEmpty |-> 0, same |-> TRUE]
    ELSE [queue |-> Append(q, item), onFull |-> 0, onEmpty |-> 0, same |-> FALSE]

\* Mutant: the newest item is removed instead of the oldest.
DequeueUpdater_Pop(currentQueue) ==
    IF Len(currentQueue) = 0
    THEN [queue |-> currentQueue, onFull |-> 0, onEmpty |-> 0, same |-> TRUE]
    ELSE LET newQueue == SubSeq(currentQueue, 1, Len(currentQueue) - 1)
         IN  [queue |-> newQueue, onFull |-> 0,
              onEmpty |-> IF Len(currentQueue) > 0 /\ Len(newQueue) = 0 THEN 1 ELSE 0,
              same |-> FALSE]

\* dequeue: setQueue((currentQueue) => { if (currentQueue.length === 0) return currentQueue;
\* newQueue = currentQueue.slice(1); if (onEmpty && currentQueue.length > 0 &&
\* newQueue.length === 0) onEmpty(); return newQueue })
DequeueUpdater(currentQueue) ==
    IF Len(currentQueue) = 0
    THEN [queue |-> currentQueue, onFull |-> 0, onEmpty |-> 0, same |-> TRUE]
    ELSE LET newQueue == Tail(currentQueue)
         IN  [queue |-> newQueue, onFull |-> 0,
              onEmpty |-> IF Len(currentQueue) > 0 /\ Len(newQueue) = 0 THEN 1 ELSE 0,
              same |-> FALSE]

\* One update as React applies it: clear's setQueue([]) replaces the state by a new array.
QApplyUpdate(upd, q, maxSize) ==
    IF upd.type = "enqueue" THEN EnqueueUpdater(q, upd.item, maxSize)
    ELSE IF upd.type = "dequeue" THEN DequeueUpdater(q)
    ELSE [queue |-> <<>>, onFull |-> 0, onEmpty |-> 0, same |-> FALSE]

\* The hook's state as one record.
QSlice ==
    [queue |-> qQueue, pending |-> qPending, scheduled |-> qScheduled, onFull |-> qOnFull,
     onEmpty |-> qOnEmpty, exec |-> <<>>, enqRuns |-> qEnqRuns, fullRuns |-> qFullRuns,
     emptied |-> qEmptied]

\* The queued updates applied in order (React's render of the state hook).
RECURSIVE QRunUpdates(_, _, _)
QRunUpdates(s, pending, maxSize) ==
    IF pending = <<>> THEN [s EXCEPT !.pending = <<>>, !.scheduled = FALSE]
    ELSE LET upd == Head(pending)
             r == QApplyUpdate(upd, s.queue, maxSize)
             isEnq == upd.type = "enqueue"
         IN  QRunUpdates(
                 [s EXCEPT !.queue = r.queue,
                           !.onFull = @ + r.onFull,
                           !.onEmpty = @ + r.onEmpty,
                           !.exec = Append(@, [type |-> upd.type, item |-> upd.item,
                                               before |-> s.queue, after |-> r.queue,
                                               onFull |-> r.onFull, onEmpty |-> r.onEmpty]),
                           !.enqRuns = IF isEnq THEN @ + 1 ELSE @,
                           !.fullRuns = IF isEnq /\ maxSize.set /\ Len(s.queue) >= maxSize.n
                                        THEN @ + 1 ELSE @,
                           !.emptied = IF s.queue # <<>> /\ r.queue = <<>> THEN @ + 1 ELSE @],
                 Tail(pending), maxSize)

\* setQueue(upd): computed at once when no render is scheduled, and then a render is
\* scheduled unless the updater returned the array it was given; queued otherwise.
QDispatch(s, upd, maxSize) ==
    IF ~s.scheduled
    THEN [QRunUpdates(s, <<upd>>, maxSize) EXCEPT
             !.scheduled = ~QApplyUpdate(upd, s.queue, maxSize).same]
    ELSE [s EXCEPT !.pending = Append(@, upd)]

QCommit(r) ==
    /\ qQueue' = r.queue
    /\ qPending' = r.pending
    /\ qScheduled' = r.scheduled
    /\ qOnFull' = r.onFull
    /\ qOnEmpty' = r.onEmpty
    /\ qEnqRuns' = r.enqRuns
    /\ qFullRuns' = r.fullRuns
    /\ qEmptied' = r.emptied
    /\ qExec' = IF r.exec = <<>> THEN qExec ELSE r.exec

\* useQueue(initialValues, { maxSize, onFull, onEmpty }) after its first render.
QInit ==
    /\ qMaxSize \in QMaxSizes
    /\ \E n \in 0 .. QMaxSize : qQueue = [i \in 1 .. n |-> i] /\ qNextItem = n + 1
    /\ qRendered = qQueue
    /\ qPending = <<>>
    /\ qScheduled = FALSE
    /\ qOnFull = 0 /\ qOnEmpty = 0
    /\ qReturned = Undefined
    /\ qExec = <<>>
    /\ qEnqCalls = 0 /\ qEnqRuns = 0 /\ qFullRuns = 0 /\ qEmptied = 0
    /\ qOps = 0
    /\ StIdle /\ DbIdle /\ TmIdle /\ IvIdle /\ HiIdle /\ LbIdle /\ L2Idle
    /\ CcIdle /\ IdIdle /\ MqIdle /\ TgIdle /\ PlIdle /\ WwIdle /\ BoIdle

\* enqueue(item)
QEnqueue ==
    /\ qOps < QMaxOps
    /\ QCommit(QDispatch(QSlice, [type |-> "enqueue", item |-> qNextItem], qMaxSize))
    /\ qNextItem' = qNextItem + 1
    /\ qEnqCalls' = qEnqCalls + 1
    /\ qOps' = qOps + 1
    /\ UNCHANGED <<qRendered, qMaxSize, qReturned>>
    /\ UNCHANGED QOthers

\* dequeue(): if (queue.length === 0) return undefined; itemToDequeue = queue[0];
\* setQueue(updater); return itemToDequeue -- `queue` is the rendered queue.
QDequeue ==
    /\ qOps < QMaxOps
    /\ IF Len(qRendered) = 0
       THEN /\ qReturned' = Undefined
            /\ UNCHANGED <<qQueue, qPending, qScheduled, qOnFull, qOnEmpty, qExec, qEnqRuns,
                           qFullRuns, qEmptied>>
       ELSE /\ qReturned' = qRendered[1]
            /\ QCommit(QDispatch(QSlice, [type |-> "dequeue", item |-> 0], qMaxSize))
    /\ qOps' = qOps + 1
    /\ UNCHANGED <<qRendered, qMaxSize, qEnqCalls, qNextItem>>
    /\ UNCHANGED QOthers

\* clear(): if (onEmpty && queue.length > 0) onEmpty(); setQueue([]) -- `queue` is the
\* rendered queue.
QClear ==
    /\ qOps < QMaxOps
    /\ LET s == [QSlice EXCEPT !.onEmpty = IF Len(qRendered) > 0 THEN @ + 1 ELSE @]
       IN  QCommit(QDispatch(s, [type |-> "clear", item |-> 0], qMaxSize))
    /\ qOps' = qOps + 1
    /\ UNCHANGED <<qRendered, qMaxSize, qReturned, qEnqCalls, qNextItem>>
    /\ UNCHANGED QOthers

\* The scheduled re-render: the queued updates are applied in order, and the callbacks
\* are created anew over the resulting queue.
QRender ==
    /\ qScheduled
    /\ QCommit(QRunUpdates(QSlice, qPending, qMaxSize))
    /\ qRendered' = QRunUpdates(QSlice, qPending, qMaxSize).queue
    /\ UNCHANGED <<qMaxSize, qReturned, qEnqCalls, qNextItem, qOps>>
    /\ UNCHANGED QOthers

QNext ==
    \/ QEnqueue
    \/ QDequeue
    \/ QClear
    \/ QRender

SpecQueue == QInit /\ [][QNext]_vars

\* ---- claims about useQueue

\* After the latest render: nothing is queued, and the closures hold the current queue.
QSettled == ~qScheduled /\ qPending = <<>> /\ qRendered = qQueue

QItems(q) == {q[i] : i \in 1 .. Len(q)}

\* Items are numbered as they are enqueued: insertion order is increasing order.
QInsertionOrder(q) == \A i, j \in 1 .. Len(q) : i < j => q[i] < q[j]

\* C6: FIFO, each call being followed by a re-render: dequeue() on a non-empty queue
\* returns the oldest item present and removes exactly that item, on an empty queue it
\* returns undefined and changes nothing; enqueue() adds at most its own item; and the
\* rendered queue (toArray) lists the items in insertion order.
C6_FIFO ==
    [][/\ (QSettled /\ QDequeue) =>
              IF qQueue = <<>>
              THEN qReturned' = Undefined /\ qQueue' = <<>>
              ELSE /\ qReturned' \in QItems(qQueue)
                   /\ \A x \in QItems(qQueue) : qReturned' <= x
                   /\ QItems(qQueue') = QItems(qQueue) \ {qReturned'}
       /\ (QSettled /\ QEnqueue) =>
              /\ QItems(qQueue') \subseteq QItems(qQueue) \cup {qNextItem}
              /\ QItems(qQueue) \subseteq QItems(qQueue')
       /\ QInsertionOrder(qRendered') /\ QInsertionOrder(qQueue')
      ]_vars

\* C6 witness: from [1, 2]: enqueue(3), then two dequeues gave 1 and 2 and left [3].
C6_Witness ==
    /\ QSettled /\ qOps = 3 /\ qNextItem = 4
    /\ qReturned = 2 /\ qRendered = <<3>>

\* C7: with maxSize = n >= 1, every run of enqueue's updater on a queue of n items
\* returns the queue unchanged and calls onFull once, and on a shorter queue appends the
\* item without calling onFull; the updater of every enqueue call runs exactly once, also
\* in a batch, so onFull has been called once per enqueue that met a full queue.
C7_MaxSizeRejects ==
    (qMaxSize.set /\ qMaxSize.n >= 1) =>
        /\ \A i \in 1 .. Len(qExec) :
              LET e == qExec[i]
              IN  e.type = "enqueue" =>
                      IF Len(e.before) >= qMaxSize.n
                      THEN e.after = e.before /\ e.onFull = 1
                      ELSE e.after = Append(e.before, e.item) /\ e.onFull = 0
        /\ qExec # <<>> => qExec[Len(qExec)].after = qQueue
        /\ qOnFull = qFullRuns
        /\ qEnqCalls = qEnqRuns + Cardinality({i \in 1 .. Len(qPending) :
                                                 qPending[i].type = "enqueue"})

\* C7 witness: maxSize = 2, empty queue, enqueue 1, 2, 3 in one batch: the render ran the
\* updaters of 2 and 3, rejected 3 with one onFull and left [1, 2].
C7_Witness ==
    /\ qMaxSize = [set |-> TRUE, n |-> 2]
    /\ QSettled /\ qOps = 3 /\ qEnqCalls = 3
    /\ Len(qExec) = 2 /\ qExec[1].onFull = 0 /\ qExec[2].onFull = 1
    /\ qQueue = <<1, 2>> /\ qOnFull = 1

\* The queue as left by all the calls made so far: the state with the queued updates
\* applied.
QEffective == QRunUpdates(QSlice, qPending, qMaxSize).queue

\* C32 (as claimed): dequeue() acts on the queue as left by all earlier calls, also
\* without a re-render in between: on a queue that is non-empty at that point it removes
\* one item and returns the item it removed, so two dequeues in one batch on [a, b]
\* return a and then b.
C32_DequeueInBatch ==
    [][QDequeue =>
           LET current == QEffective
           IN  current # <<>> =>
                   /\ qReturned' = Head(current)
                   /\ QEffective' = Tail(current)]_vars

\* The length of initialValues: items are numbered from 1 in insertion order.
QInitialLen == qNextItem - 1 - qEnqCalls

\* C36 (as claimed): for every numeric maxSize >= 0, 0 included, and initialValues of at
\* most maxSize items, the queue holds at most maxSize items after any sequence of
\* enqueue, dequeue and clear calls.
C36_SizeAtMostMaxSize ==
    (qMaxSize.set /\ QInitialLen <= qMaxSize.n) =>
        (Len(qQueue) <= qMaxSize.n /\ Len(qRendered) <= qMaxSize.n)

\* C8 (as claimed): onEmpty has fired exactly once for each time the queue went from
\* non-empty to empty, and never otherwise; dequeue() on an empty queue returned
\* undefined and left it empty.
C8_OnEmptyOncePerEmptying ==
    (~qScheduled /\ qPending = <<>>) => qOnEmpty = qEmptied

\* -------------------------------------------------------------------
\* useDebounce (src/src/hooks/useDebounce.ts)
\* -------------------------------------------------------------------

\* Re-renders per behaviour of useDebounce.
DbMaxOps == 3
\* The delay argument is 0..DbMaxDelay ms.
DbMaxDelay == 2
\* The clock runs from 0 to DbMaxTime ms.
DbMaxTime == 4

DbDelays == 0 .. DbMaxDelay

\* timeoutRef.current when no id is stored: null, which `if (timeoutRef.current)` takes
\* for absent; the ids window.setTimeout returns are positive.
DbNoTimer == 0

\* clearTimeout(id): the timer of that id, if it is still armed, is dropped.
DbClearTimeout(timers, id) == {t \in timers : t.id # id}

\* The hook's refs, state and timers as a record.
DbState == [debounced |-> dbDebounced, timeoutRef |-> dbTimeoutRef,
            hasCleanup |-> dbHasCleanup, timers |-> dbTimers, nextId |-> dbNextId]

\* The cleanup the effect returned, if it returned one.
DbCleanup(s) ==
    IF s.hasCleanup /\ s.timeoutRef # DbNoTimer
    THEN [s EXCEPT !.timers = DbClearTimeout(s.timers, s.timeoutRef)]
    ELSE s

\* The effect with the delay dropped: the timer is due at once.
DbEffect_NoDelay(s, value, delay, immediate, now) ==
    LET cleared == IF s.timeoutRef # DbNoTimer
                   THEN DbClearTimeout(s.timers, s.timeoutRef)
                   ELSE s.timers
    IN  IF immediate
        THEN [s EXCEPT !.timers = cleared, !.debounced = value, !.hasCleanup = FALSE]
        ELSE [s EXCEPT !.timers = cleared \cup
                                    {[id |-> s.nextId, due |-> now, value |-> value]},
                       !.timeoutRef = s.nextId,
                       !.nextId = s.nextId + 1,
                       !.hasCleanup = TRUE]

\* The effect of useDebounce, run after the first render and after every render in which
\* value, delay or immediate differs from the render before.
DbEffect(s, value, delay, immediate, now) ==
    LET cleared == IF s.timeoutRef # DbNoTimer
                   THEN DbClearTimeout(s.timers, s.timeoutRef)
                   ELSE s.timers
    IN  IF immediate
        THEN [s EXCEPT !.timers = cleared, !.debounced = value, !.hasCleanup = FALSE]
        ELSE [s EXCEPT !.timers = cleared \cup
                                    {[id |-> s.nextId, due |-> now + delay, value |-> value]},
                       !.timeoutRef = s.nextId,
                       !.nextId = s.nextId + 1,
                       !.hasCleanup = TRUE]

DbCommit(s) ==
    /\ dbDebounced' = s.debounced
    /\ dbTimeoutRef' = s.timeoutRef
    /\ dbHasCleanup' = s.hasCleanup
    /\ dbTimers' = s.timers
    /\ dbNextId' = s.nextId

DbInit ==
    /\ dbPhase = "new"
    /\ dbValue \in Values
    /\ dbDelay \in DbDelays
    /\ dbImmediate \in BOOLEAN
    /\ dbDebounced = 0
    /\ dbTimeoutRef = DbNoTimer
    /\ dbHasCleanup = FALSE
    /\ dbTimers = {}
    /\ dbNextId = 1
    /\ dbNow = 0
    /\ dbLastChange = 0
    /\ dbCommits = 0
    /\ dbFirst = dbValue
    /\ dbOps = 0
    /\ StIdle /\ QIdle /\ TmIdle /\ IvIdle /\ HiIdle /\ LbIdle /\ L2Idle
    /\ CcIdle /\ IdIdle /\ MqIdle /\ TgIdle /\ PlIdle /\ WwIdle /\ BoIdle

\* The first render: useState(value), then the effect.
DbMount ==
    /\ dbPhase = "new"
    /\ dbPhase' = "mounted"
    /\ DbCommit(DbEffect([DbState EXCEPT !.debounced = dbValue],
                         dbValue, dbDelay, dbImmediate, dbNow))
    /\ dbLastChange' = dbNow
    /\ UNCHANGED <<dbValue, dbDelay, dbImmediate, dbNow, dbCommits, dbFirst, dbOps>>
    /\ UNCHANGED DbOthers

\* The component renders again with these arguments: when one of them differs from the
\* render before, the cleanup runs and then the effect.
DbRerender(value, delay, immediate) ==
    /\ dbPhase = "mounted"
    /\ dbOps < DbMaxOps
    /\ dbOps' = dbOps + 1
    /\ dbValue' = value /\ dbDelay' = delay /\ dbImmediate' = immediate
    /\ IF <<value, delay, immediate>> = <<dbValue, dbDelay, dbImmediate>>
       THEN UNCHANGED <<dbDebounced, dbTimeoutRef, dbHasCleanup, dbTimers, dbNextId,
                        dbLastChange, dbCommits>>
       ELSE /\ DbCommit(DbEffect(DbCleanup(DbState), value, delay, immediate, dbNow))
            /\ dbLastChange' = dbNow
            /\ dbCommits' = 0
    /\ UNCHANGED <<dbPhase, dbNow, dbFirst>>
    /\ UNCHANGED DbOthers

DbRender == \E value \in Values, delay \in DbDelays, immediate \in BOOLEAN :
                DbRerender(value, delay, immediate)

\* A millisecond passes; a timer that is due fires before the clock moves on.
DbTick ==
    /\ dbPhase # "new"
    /\ dbNow < DbMaxTime
    /\ \A t \in dbTimers : t.due > dbNow
    /\ dbNow' = dbNow + 1
    /\ UNCHANGED <<dbPhase, dbValue, dbDelay, dbImmediate, dbDebounced, dbTimeoutRef,
                   dbHasCleanup, dbTimers, dbNextId, dbLastChange, dbCommits, dbFirst, dbOps>>
    /\ UNCHANGED DbOthers

\* A due timer fires: its callback sets the state to the value of the render that armed it.
DbFire ==
    \E t \in dbTimers :
        /\ t.due <= dbNow
        /\ dbTimers' = dbTimers \ {t}
        /\ dbDebounced' = IF dbPhase = "mounted" THEN t.value ELSE dbDebounced
        /\ dbCommits' = dbCommits + 1
        /\ UNCHANGED <<dbPhase, dbValue, dbDelay, dbImmediate, dbTimeoutRef, dbHasCleanup,
                       dbNextId, dbNow, dbLastChange, dbFirst, dbOps>>
        /\ UNCHANGED DbOthers

DbUnmount ==
    /\ dbPhase = "mounted"
    /\ dbPhase' = "unmounted"
    /\ DbCommit(DbCleanup(DbState))
    /\ UNCHANGED <<dbValue, dbDelay, dbImmediate, dbNow, dbLastChange, dbCommits, dbFirst,
                   dbOps>>
    /\ UNCHANGED DbOthers

DbNext == DbMount \/ DbRender \/ DbTick \/ DbFire \/ DbUnmount

SpecDebounce == DbInit /\ [][DbNext]_vars

\* ---- claims about useDebounce

\* C9: useDebounce with immediate = false is trailing-edge: the returned value is the
\* first value after the first render; it changes only when delay ms have passed since
\* value, delay or immediate changed last, and then to the value supplied last, by the
\* single commit since that change; once more than delay ms have passed it is that value;
\* at most one timer is pending at any time and none after unmount.
C9_TrailingEdge ==
    /\ [](/\ Cardinality(dbTimers) <= 1
          /\ dbPhase = "unmounted" => dbTimers = {}
          /\ (dbPhase = "mounted" /\ ~dbImmediate) =>
                 /\ dbCommits <= 1
                 /\ dbNow > dbLastChange + dbDelay => dbDebounced = dbValue
                 /\ dbTimers = {} => dbDebounced = dbValue)
    /\ [][/\ DbMount => dbDebounced' = dbValue
          /\ (dbPhase = "mounted" /\ ~dbImmediate /\ ~dbImmediate'
                  /\ dbDebounced' # dbDebounced) =>
                 /\ dbNow >= dbLastChange + dbDelay
                 /\ dbLastChange' = dbLastChange
                 /\ dbDebounced' = dbValue
                 /\ dbCommits' = 1
         ]_vars

\* C9 witness: a burst of two changes inside a window of 2 ms that leaves another value
\* than the first, and then the one commit, of that value, 2 ms after the second change.
C9_Witness ==
    /\ dbPhase = "mounted" /\ ~dbImmediate /\ dbDelay = 2
    /\ dbOps = 2 /\ dbNextId = 4 /\ dbLastChange = 1
    /\ dbNow = 3 /\ dbCommits = 1 /\ dbTimers = {}
    /\ dbDebounced = dbValue /\ dbValue # dbFirst

\* -------------------------------------------------------------------
\* useTimeout (src/src/hooks/useTimeout.ts)
\* -------------------------------------------------------------------

\* Calls and re-renders per behaviour of useTimeout.
TmMaxOps == 3
\* A delay that is not null is 1..TmMaxDelay ms.
TmMaxDelay == 2
\* The clock runs from 0 to TmMaxTime ms.
TmMaxTime == 4

\* delay: null
NullDelay == -1
TmDelays == {NullDelay} \cup (1 .. TmMaxDelay)

\* The callbacks a render may pass.
TmCallbacks == {1, 2}
\* savedCallback.current before the first effect: a function that does nothing.
TmNoop == 0

\* timeoutId.current when no id is stored: null; the ids window.setTimeout returns are
\* positive.
TmNoTimer == 0

\* The hook's refs, state and timers as a record.
TmState == [timeoutId |-> tmTimeoutId, isPending |-> tmIsPending, timers |-> tmTimers,
            nextId |-> tmNextId, armed |-> tmArmed, armedAt |-> tmArmedAt]

\* clear() that forgets clearTimeout.
TmClear_KeepTimer(s) ==
    [s EXCEPT !.timeoutId = TmNoTimer, !.isPending = FALSE]

\* start() that does not call clear() first.
TmStart_NoClear(s, delay, now) ==
    IF delay # NullDelay
    THEN [s EXCEPT !.isPending = TRUE,
                   !.timers = s.timers \cup {[id |-> s.nextId, due |-> now + delay]},
                   !.timeoutId = s.nextId,
                   !.nextId = s.nextId + 1,
                   !.armed = s.armed + 1,
                   !.armedAt = now]
    ELSE s

\* clear(), which is also cancel() and the cleanup of the autoStart effect.
TmClear(s) ==
    [s EXCEPT !.timers = IF s.timeoutId # TmNoTimer
                         THEN {t \in s.timers : t.id # s.timeoutId}
                         ELSE s.timers,
              !.timeoutId = TmNoTimer,
              !.isPending = FALSE]

\* start() without the test of delay: window.setTimeout takes a null delay for 0.
TmStart_NoNullGuard(s, delay, now) ==
    LET c == TmClear(s)
    IN  [c EXCEPT !.isPending = TRUE,
                  !.timers = c.timers \cup
                      {[id |-> c.nextId,
                        due |-> now + (IF delay = NullDelay THEN 0 ELSE delay)]},
                  !.timeoutId = c.nextId,
                  !.nextId = c.nextId + 1,
                  !.armed = c.armed + 1,
                  !.armedAt = now]

\* start() of a render whose delay is `delay`.
TmStart(s, delay, now) ==
    LET c == TmClear(s)
    IN  IF delay # NullDelay
        THEN [c EXCEPT !.isPending = TRUE,
                       !.timers = c.timers \cup {[id |-> c.nextId, due |-> now + delay]},
                       !.timeoutId = c.nextId,
                       !.nextId = c.nextId + 1,
                       !.armed = c.armed + 1,
                  !.armedAt = now]
        ELSE c

\* reset()
TmReset(s, delay, now) == TmStart(TmClear(s), delay, now)

\* The autoStart effect, without its cleanup.
TmAutoStartEffect(s, delay, autoStart, now) ==
    IF autoStart /\ delay # NullDelay THEN TmStart(s, delay, now) ELSE s

TmCommit(s) ==
    /\ tmTimeoutId' = s.timeoutId
    /\ tmIsPending' = s.isPending
    /\ tmTimers' = s.timers
    /\ tmNextId' = s.nextId
    /\ tmArmed' = s.armed
    /\ tmArmedAt' = s.armedAt

TmInit ==
    /\ tmPhase = "new"
    /\ tmCallback = 1
    /\ tmDelay \in TmDelays
    /\ tmAutoStart \in BOOLEAN
    /\ tmSavedCallback = TmNoop
    /\ tmTimeoutId = TmNoTimer
    /\ tmIsPending = FALSE
    /\ tmTimers = {}
    /\ tmNextId = 1
    /\ tmNow = 0
    /\ tmCalls = 0
    /\ tmLastCalled = TmNoop
    /\ tmArmed = 0
    /\ tmNullAlways = (tmDelay = NullDelay)
    /\ tmCalled = {}
    /\ tmArmedAt = 0
    /\ tmBarrier = 1
    /\ tmOps = 0
    /\ StIdle /\ QIdle /\ DbIdle /\ IvIdle /\ HiIdle /\ LbIdle /\ L2Idle
    /\ CcIdle /\ IdIdle /\ MqIdle /\ TgIdle /\ PlIdle /\ WwIdle /\ BoIdle

\* The first render and its two effects.
TmMount ==
    /\ tmPhase = "new"
    /\ tmPhase' = "mounted"
    /\ tmSavedCallback' = tmCallback
    /\ TmCommit(TmAutoStartEffect(TmState, tmDelay, tmAutoStart, tmNow))
    /\ UNCHANGED <<tmCallback, tmDelay, tmAutoStart, tmNow, tmCalls, tmLastCalled,
                   tmNullAlways, tmCalled, tmBarrier, tmOps>>
    /\ UNCHANGED TmOthers

\* The component renders again with these options.  The first effect runs when callback
\* differs; the second runs, after its cleanup, when delay or autoStart differs (start
\* changes with delay, clear never changes).
TmRerender(callback, delay, autoStart) ==
    /\ tmPhase = "mounted"
    /\ tmOps < TmMaxOps
    /\ tmOps' = tmOps + 1
    /\ tmCallback' = callback /\ tmDelay' = delay /\ tmAutoStart' = autoStart
    /\ tmSavedCallback' = callback
    /\ IF <<delay, autoStart>> = <<tmDelay, tmAutoStart>>
       THEN UNCHANGED <<tmTimeoutId, tmIsPending, tmTimers, tmNextId, tmArmed, tmArmedAt>>
       ELSE TmCommit(TmAutoStartEffect(TmClear(TmState), delay, autoStart, tmNow))
    /\ tmNullAlways' = (tmNullAlways /\ delay = NullDelay)
    /\ UNCHANGED <<tmPhase, tmNow, tmCalls, tmLastCalled, tmCalled, tmBarrier>>
    /\ UNCHANGED TmOthers

TmRender == \E callback \in TmCallbacks, delay \in TmDelays, autoStart \in BOOLEAN :
                TmRerender(callback, delay, autoStart)

\* The component calls start(), cancel() or reset() of the latest render.
TmCall(name, s) ==
    /\ tmPhase = "mounted"
    /\ tmOps < TmMaxOps
    /\ tmOps' = tmOps + 1
    /\ tmCalled' = tmCalled \cup {name}
    /\ tmBarrier' = IF name = "cancel" THEN tmNextId ELSE tmBarrier
    /\ TmCommit(s)
    /\ UNCHANGED <<tmPhase, tmCallback, tmDelay, tmAutoStart, tmSavedCallback, tmNow,
                   tmCalls, tmLastCalled, tmNullAlways>>
    /\ UNCHANGED TmOthers

TmCallStart == TmCall("start", TmStart(TmState, tmDelay, tmNow))

TmCallCancel == TmCall("cancel", TmClear(TmState))

TmCallReset == TmCall("reset", TmReset(TmState, tmDelay, tmNow))

\* A millisecond passes; a timer that is due fires before the clock moves on.
TmTick ==
    /\ tmPhase # "new"
    /\ tmNow < TmMaxTime
    /\ \A t \in tmTimers : t.due > tmNow
    /\ tmNow' = tmNow + 1
    /\ UNCHANGED <<tmPhase, tmCallback, tmDelay, tmAutoStart, tmSavedCallback, tmTimeoutId,
                   tmIsPending, tmTimers, tmNextId, tmCalls, tmLastCalled, tmArmed,
                   tmNullAlways, tmCalled, tmArmedAt, tmBarrier, tmOps>>
    /\ UNCHANGED TmOthers

\* A due timer fires: savedCallback.current() and setIsPending(false); timeoutId.current
\* keeps the id.
TmFire ==
    \E t \in tmTimers :
        /\ t.due <= tmNow
        /\ tmTimers' = tmTimers \ {t}
        /\ tmCalls' = tmCalls + 1
        /\ tmLastCalled' = tmSavedCallback
        /\ tmIsPending' = FALSE
        /\ UNCHANGED <<tmPhase, tmCallback, tmDelay, tmAutoStart, tmSavedCallback,
                       tmTimeoutId, tmNextId, tmNow, tmArmed, tmNullAlways, tmCalled,
                       tmArmedAt, tmBarrier, tmOps>>
        /\ UNCHANGED TmOthers

\* Unmount: the cleanup of the autoStart effect, which is clear.
TmUnmount ==
    /\ tmPhase = "mounted"
    /\ tmPhase' = "unmounted"
    /\ TmCommit(TmClear(TmState))
    /\ tmBarrier' = tmNextId
    /\ UNCHANGED <<tmCallback, tmDelay, tmAutoStart, tmSavedCallback, tmNow, tmCalls,
                   tmLastCalled, tmNullAlways, tmCalled, tmOps>>
    /\ UNCHANGED TmOthers

TmNext ==
    \/ TmMount \/ TmRender \/ TmCallStart \/ TmCallCancel \/ TmCallReset
    \/ TmTick \/ TmFire \/ TmUnmount

SpecTimeout == TmInit /\ [][TmNext]_vars

\* ---- claims about useTimeout

\* C10: useTimeout with delay = null: while delay is null no timer is armed and isPending
\* is false, and when delay has been null in every render, window.setTimeout was never
\* called and no callback was ever invoked, whatever time has passed and whichever of
\* start(), reset() and cancel() were called.
C10_NullDelayNeverArms ==
    /\ tmDelay = NullDelay => (tmTimers = {} /\ ~tmIsPending)
    /\ tmNullAlways => (tmArmed = 0 /\ tmCalls = 0 /\ tmLastCalled = TmNoop)

\* C10 witness: delay null throughout, start() and reset() called, 2 ms passed.
C10_Witness ==
    /\ tmPhase = "mounted" /\ tmNullAlways /\ tmDelay = NullDelay
    /\ {"start", "reset"} \subseteq tmCalled
    /\ tmNow >= 2


\* C11: after cancel() or unmount no timer armed before that point is pending, so none
\* of them invokes the callback: a timer that fires was armed (by start(), directly, through
\* reset() or through the autoStart effect) after the latest cancel(); after unmount no
\* timer is pending at all.
C11_CancelledNeverFires ==
    /\ [](/\ \A t \in tmTimers : t.id >= tmBarrier
          /\ tmPhase = "unmounted" => tmTimers = {})
    /\ [][/\ (TmCallCancel \/ TmUnmount) => tmTimers' = {}
          /\ tmCalls' # tmCalls =>
                 \E t \in tmTimers : t.id >= tmBarrier /\ tmTimers' = tmTimers \ {t}
         ]_vars

\* C11 witness: the timer armed at mount was cancelled while pending, and the time at
\* which it was due has passed without a call of the callback.
C11_Witness ==
    /\ tmPhase = "mounted" /\ tmDelay # NullDelay
    /\ tmOps = 1 /\ tmCalled = {"cancel"}
    /\ tmArmed = 1 /\ tmBarrier = 2
    /\ tmNow > tmArmedAt + tmDelay
    /\ tmCalls = 0

\* C12: at most one timer is armed at any time, it is the one timeoutId.current names and
\* it is due delay ms after the latest arming; isPending is true exactly while it is
\* armed; start() and reset() with a non-null delay leave exactly one timer, due delay ms
\* after the call; the callback is invoked when that timer is due, and the fire leaves no
\* timer and isPending false.
C12_OneTimerFiresOnce ==
    /\ [](/\ Cardinality(tmTimers) <= 1
          /\ tmIsPending <=> tmTimers # {}
          /\ \A t \in tmTimers : t.id = tmTimeoutId /\ t.due = tmArmedAt + tmDelay)
    /\ [][/\ ((TmCallStart \/ TmCallReset) /\ tmDelay # NullDelay) =>
                 /\ tmTimers' = {[id |-> tmNextId, due |-> tmNow + tmDelay]}
                 /\ tmIsPending'
          /\ tmCalls' # tmCalls =>
                 /\ tmCalls' = tmCalls + 1
                 /\ tmNow = tmArmedAt + tmDelay
                 /\ tmTimers' = {} /\ ~tmIsPending'
         ]_vars

\* C12 witness: start() and reset() called while the timer armed at mount was pending, and
\* then the one fire, delay ms after the later of the two calls.
C12_Witness ==
    /\ tmPhase = "mounted" /\ tmDelay # NullDelay
    /\ tmOps = 2 /\ tmCalled = {"start", "reset"}
    /\ tmArmed = 3 /\ tmArmedAt >= 1
    /\ tmCalls = 1 /\ tmTimers = {} /\ ~tmIsPending
    /\ tmNow = tmArmedAt + tmDelay

\* C13 (as claimed): with autoStart and a non-null delay, a re-render while the timer is
\* pending that changes callback (same delay) or delay leaves a timer due delay ms after
\* that re-render.
C13_CallbackChangeRearms ==
    [][(/\ tmPhase = "mounted" /\ tmPhase' = "mounted"
        /\ tmAutoStart /\ tmAutoStart'
        /\ tmDelay # NullDelay /\ tmDelay' # NullDelay
        /\ tmTimers # {}
        /\ (tmCallback' # tmCallback \/ tmDelay' # tmDelay)) =>
           /\ tmTimers' # {}
           /\ \A t \in tmTimers' : t.due = tmNow + tmDelay'
      ]_vars

\* -------------------------------------------------------------------
\* useInterval (src/src/hooks/useInterval.ts)
\* -------------------------------------------------------------------

\* Calls and re-renders per behaviour of useInterval.
IvMaxOps == 2
\* A delay that is not null is 1..IvMaxDelay ms.
IvMaxDelay == 2
\* The clock runs from 0 to IvMaxTime ms.
IvMaxTime == 4

IvDelays == {NullDelay} \cup (1 .. IvMaxDelay)

\* The callbacks a render may pass.
IvCallbacks == {1, 2}

\* intervalId.current when no id is stored: null; the ids window.setInterval returns are
\* positive.
IvNoTimer == 0

\* The hook's refs, state and timers, and the calls of the callback, as a record.
IvState == [intervalId |-> ivIntervalId, isRunning |-> ivIsRunning, timers |-> ivTimers,
            nextId |-> ivNextId, calls |-> ivCalls, lastCalled |-> ivLastCalled,
            armed |-> ivArmed, armedAt |-> ivArmedAt]

\* cleanup(), which is also the cleanup of the autoStart effect.
IvCleanup(s) ==
    IF s.intervalId # IvNoTimer
    THEN [s EXCEPT !.timers = {t \in s.timers : t.id # s.intervalId},
                   !.intervalId = IvNoTimer]
    ELSE s

\* start() of a render whose options are delay and runImmediately.
IvStart(s, delay, runImmediately, savedCallback, now) ==
    IF delay = NullDelay
    THEN [s EXCEPT !.isRunning = FALSE]
    ELSE IF s.intervalId # IvNoTimer
    THEN s
    ELSE [s EXCEPT !.isRunning = TRUE,
                   !.calls = IF runImmediately THEN s.calls + 1 ELSE s.calls,
                   !.lastCalled = IF runImmediately THEN savedCallback ELSE s.lastCalled,
                   !.timers = s.timers \cup
                                  {[id |-> s.nextId, due |-> now + delay, period |-> delay]},
                   !.intervalId = s.nextId,
                   !.nextId = s.nextId + 1,
                   !.armed = s.armed + 1,
                   !.armedAt = now]

\* pause() that forgets cleanup().
IvPause_KeepTimer(s) == [s EXCEPT !.isRunning = FALSE]

\* pause()
IvPause(s) == [IvCleanup(s) EXCEPT !.isRunning = FALSE]

\* restart()
IvRestart(s, delay, runImmediately, savedCallback, now) ==
    IvStart(IvCleanup(s), delay, runImmediately, savedCallback, now)

\* The autoStart effect, without its cleanup.
IvAutoStartEffect(s, delay, runImmediately, autoStart, savedCallback, now) ==
    IF autoStart THEN IvStart(s, delay, runImmediately, savedCallback, now) ELSE s

IvCommit(s) ==
    /\ ivIntervalId' = s.intervalId
    /\ ivIsRunning' = s.isRunning
    /\ ivTimers' = s.timers
    /\ ivNextId' = s.nextId
    /\ ivCalls' = s.calls
    /\ ivLastCalled' = s.lastCalled
    /\ ivArmed' = s.armed
    /\ ivArmedAt' = s.armedAt

IvInit ==
    /\ ivPhase = "new"
    /\ ivCallback = 1
    /\ ivDelay \in IvDelays
    /\ ivRunImmediately \in BOOLEAN
    /\ ivAutoStart \in BOOLEAN
    /\ ivSavedCallback = ivCallback
    /\ ivIntervalId = IvNoTimer
    /\ ivIsRunning = FALSE
    /\ ivTimers = {}
    /\ ivNextId = 1
    /\ ivNow = 0
    /\ ivCalls = 0
    /\ ivLastCalled = 0
    /\ ivArmed = 0
    /\ ivArmedAt = 0
    /\ ivPaused = FALSE
    /\ ivChanged = FALSE
    /\ ivCalled = {}
    /\ ivOps = 0
    /\ StIdle /\ QIdle /\ DbIdle /\ TmIdle /\ HiIdle /\ LbIdle /\ L2Idle
    /\ CcIdle /\ IdIdle /\ MqIdle /\ TgIdle /\ PlIdle /\ WwIdle /\ BoIdle

\* The first render and its two effects.
IvMount ==
    /\ ivPhase = "new"
    /\ ivPhase' = "mounted"
    /\ ivSavedCallback' = ivCallback
    /\ IvCommit(IvAutoStartEffect(IvState, ivDelay, ivRunImmediately, ivAutoStart,
                                  ivCallback, ivNow))
    /\ UNCHANGED <<ivCallback, ivDelay, ivRunImmediately, ivAutoStart, ivNow, ivPaused,
                   ivChanged, ivCalled, ivOps>>
    /\ UNCHANGED IvOthers

\* The component renders again with these options.  The first effect runs when callback
\* differs; the second runs, after its cleanup, when autoStart differs or start does, which
\* changes with delay and runImmediately.
IvRerender(callback, delay, runImmediately, autoStart) ==
    /\ ivPhase = "mounted"
    /\ ivOps < IvMaxOps
    /\ ivOps' = ivOps + 1
    /\ ivCallback' = callback /\ ivDelay' = delay
    /\ ivRunImmediately' = runImmediately /\ ivAutoStart' = autoStart
    /\ ivSavedCallback' = callback
    /\ IF <<delay, runImmediately, autoStart>> = <<ivDelay, ivRunImmediately, ivAutoStart>>
       THEN UNCHANGED <<ivIntervalId, ivIsRunning, ivTimers, ivNextId, ivCalls,
                        ivLastCalled, ivArmed, ivArmedAt>>
       ELSE IvCommit(IvAutoStartEffect(IvCleanup(IvState), delay, runImmediately,
                                       autoStart, callback, ivNow))
    /\ ivChanged' = (ivChanged \/ <<callback, delay, runImmediately, autoStart>> #
                                      <<ivCallback, ivDelay, ivRunImmediately, ivAutoStart>>)
    /\ UNCHANGED <<ivPhase, ivNow, ivPaused, ivCalled>>
    /\ UNCHANGED IvOthers

IvRender ==
    \E callback \in IvCallbacks, delay \in IvDelays, runImmediately, autoStart \in BOOLEAN :
        IvRerender(callback, delay, runImmediately, autoStart)

\* The component calls start(), pause() or restart() of the latest render.
IvCall(name, s) ==
    /\ ivPhase = "mounted"
    /\ ivOps < IvMaxOps
    /\ ivOps' = ivOps + 1
    /\ ivCalled' = ivCalled \cup {name}
    /\ ivPaused' = (name = "pause")
    /\ IvCommit(s)
    /\ UNCHANGED <<ivPhase, ivCallback, ivDelay, ivRunImmediately, ivAutoStart,
                   ivSavedCallback, ivNow, ivChanged>>
    /\ UNCHANGED IvOthers

IvCallStart ==
    IvCall("start", IvStart(IvState, ivDelay, ivRunImmediately, ivSavedCallback, ivNow))

IvCallPause == IvCall("pause", IvPause(IvState))

IvCallRestart ==
    IvCall("restart", IvRestart(IvState, ivDelay, ivRunImmediately, ivSavedCallback, ivNow))

\* A millisecond passes; a timer that is due fires before the clock moves on.
IvTick ==
    /\ ivPhase # "new"
    /\ ivNow < IvMaxTime
    /\ \A t \in ivTimers : t.due > ivNow
    /\ ivNow' = ivNow + 1
    /\ UNCHANGED <<ivPhase, ivCallback, ivDelay, ivRunImmediately, ivAutoStart,
                   ivSavedCallback, ivIntervalId, ivIsRunning, ivTimers, ivNextId, ivCalls,
                   ivLastCalled, ivArmed, ivArmedAt, ivPaused, ivChanged, ivCalled, ivOps>>
    /\ UNCHANGED IvOthers

\* A due interval timer fires: savedCallback.current(); the timer is due again one period
\* later.
IvFire ==
    \E t \in ivTimers :
        /\ t.due <= ivNow
        /\ ivTimers' = (ivTimers \ {t}) \cup {[t EXCEPT !.due = t.due + t.period]}
        /\ ivCalls' = ivCalls + 1
        /\ ivLastCalled' = ivSavedCallback
        /\ UNCHANGED <<ivPhase, ivCallback, ivDelay, ivRunImmediately, ivAutoStart,
                       ivSavedCallback, ivIntervalId, ivIsRunning, ivNextId, ivNow, ivArmed,
                       ivArmedAt, ivPaused, ivChanged, ivCalled, ivOps>>
        /\ UNCHANGED IvOthers

\* Unmount: the cleanup of the autoStart effect, which is cleanup.
IvUnmount ==
    /\ ivPhase = "mounted"
    /\ ivPhase' = "unmounted"
    /\ IvCommit(IvCleanup(IvState))
    /\ UNCHANGED <<ivCallback, ivDelay, ivRunImmediately, ivAutoStart, ivSavedCallback,
                   ivNow, ivPaused, ivChanged, ivCalled, ivOps>>
    /\ UNCHANGED IvOthers

IvNext ==
    \/ IvMount \/ IvRender \/ IvCallStart \/ IvCallPause \/ IvCallRestart
    \/ IvTick \/ IvFire \/ IvUnmount

SpecInterval == IvInit /\ [][IvNext]_vars

\* ---- claims about useInterval

\* C14: with the options unchanged since mount: from a pause() call until the next
\* start() or restart() call no timer is armed, isRunning is false and the callback is not
\* invoked; a start() or restart() call that ends the pause (delay not null) arms one
\* interval timer of period delay, first due delay ms after the call, and sets isRunning;
\* a timer fires when it is due and is then due again one period later; after unmount no
\* timer is armed and the callback is not invoked.
C14_PauseStopsTicks ==
    /\ [](/\ (ivPaused /\ ~ivChanged) => (ivTimers = {} /\ ~ivIsRunning)
          /\ ivPhase = "unmounted" => ivTimers = {})
    /\ [][/\ (ivPaused /\ ivPaused' /\ ~ivChanged') => ivCalls' = ivCalls
          /\ ivPhase = "unmounted" => ivCalls' = ivCalls
          /\ (ivPaused /\ ~ivChanged /\ ivDelay # NullDelay
                  /\ (IvCallStart \/ IvCallRestart)) =>
                 /\ ivTimers' = {[id |-> ivNextId, due |-> ivNow + ivDelay,
                                  period |-> ivDelay]}
                 /\ ivIsRunning'
          /\ (~ivChanged /\ IvFire) =>
                 \E t \in ivTimers :
                     /\ t.due = ivNow /\ t.period = ivDelay
                     /\ ivTimers' = {[t EXCEPT !.due = ivNow + ivDelay]}
                     /\ ivCalls' = ivCalls + 1
         ]_vars

\* C14 witness: delay 1, started at mount, paused before the first tick, no tick in the
\* 3 ms to the start() call at 3 ms, and then one tick at 4 ms.
C14_Witness ==
    /\ ivPhase = "mounted" /\ ~ivChanged /\ ivDelay = 1 /\ ~ivRunImmediately
    /\ ivOps = 2 /\ ivCalled = {"pause", "start"} /\ ~ivPaused
    /\ ivArmed = 2 /\ ivArmedAt = 3
    /\ ivNow = 4 /\ ivCalls = 1 /\ ivIsRunning
    /\ \E t \in ivTimers : t.due = 5


\* C37 (as claimed): while the component is mounted, effects settled, isRunning is true
\* if and only if an interval timer is armed, over any sequence of start(), pause(),
\* restart(), ticks and re-renders that change delay or autoStart.
C37_RunningIffArmed == ivPhase = "mounted" => (ivIsRunning <=> ivTimers # {})
\* -------------------------------------------------------------------
\* useHandledInterval (src/unnamed/part_023)
\* -------------------------------------------------------------------

\* Calls and re-renders per behaviour of useHandledInterval.
HiMaxOps == 2
\* The delay option and the argument of setDelay are 2..HiMaxDelay ms.
HiMaxDelay == 3
\* The clock runs from 0 to HiMaxTime ms.
HiMaxTime == 2

HiDelays == 2 .. HiMaxDelay

\* minDelay: 0 by default; with random, values that keep every sampled duration positive.
HiMinDelays(random) == IF random THEN {1, 2} ELSE {0}

\* What Math.random() may return, in halves: 0, 0.5 and (mocked) 1.
HiSamples == {0, 1, 2}

\* The callbacks a render may pass.
HiCallbacks == {1, 2}

\* intervalId.current when no id is stored: null, which `if (intervalId.current)` takes
\* for absent; the ids window.setInterval returns are positive.
HiNoTimer == 0

\* getRandomDelay() of a render whose currentDelay is given, Math.random() returning r/2.
GetRandomDelay(currentDelay, r) ==
    IF ~hiRandom
    THEN currentDelay
    ELSE ((r * (currentDelay - hiMinDelay)) \div 2) + hiMinDelay

\* The hook's refs, state and timers as a record.
HiState == [currentDelay |-> hiCurrentDelay, isRunning |-> hiIsRunning,
            intervalId |-> hiIntervalId, nextIntervalDelay |-> hiNextIntervalDelay,
            timers |-> hiTimers, nextId |-> hiNextId, draws |-> hiDraws,
            lastDraw |-> hiLastDraw]

\* clear()
HiClear(s) ==
    [s EXCEPT !.timers = IF s.intervalId # HiNoTimer
                         THEN {t \in s.timers : t.id # s.intervalId}
                         ELSE s.timers,
              !.intervalId = HiNoTimer,
              !.nextIntervalDelay = NullDelay]

\* window.setInterval(handler, wait) with the refs set as start() and its handler set
\* them.  A "tick" handler is start()'s arrow function, which holds getRandomDelay of the
\* render whose currentDelay is `delay`; a "callback" handler is the function that was in
\* callbackRef.current when the timer was armed.
HiArm(s, handler, cb, delay, r, now) ==
    LET wait == GetRandomDelay(delay, r)
    IN  [s EXCEPT !.nextIntervalDelay = wait,
                  !.timers = s.timers \cup
                      {[id |-> s.nextId, due |-> now + wait, period |-> wait,
                        handler |-> handler, cb |-> cb, delay |-> delay]},
                  !.intervalId = s.nextId,
                  !.nextId = s.nextId + 1,
                  !.draws = IF hiRandom THEN s.draws + 1 ELSE s.draws,
                  !.lastDraw = IF hiRandom THEN r ELSE s.lastDraw]

\* start() without the test of intervalId.current.
HiStart_NoGuard(s, delay, r, now) ==
    HiArm([s EXCEPT !.isRunning = TRUE], "tick", 0, delay, r, now)

\* start() of a render whose currentDelay is `delay`.
HiStart(s, delay, r, now) ==
    IF s.intervalId # HiNoTimer
    THEN s
    ELSE HiArm([s EXCEPT !.isRunning = TRUE], "tick", 0, delay, r, now)

\* pause()
HiPause(s) == HiClear([s EXCEPT !.isRunning = FALSE])

\* reset()
HiReset(s, delay, r, now) == HiStart(HiPause(s), delay, r, now)

\* setDelay(newDelay) of a render whose isRunning and currentDelay are given.
HiSetDelay(s, newDelay, isRunning, delay, r, now) ==
    LET s1 == [s EXCEPT !.currentDelay = newDelay]
    IN  IF isRunning THEN HiStart(HiClear(s1), delay, r, now) ELSE s1

\* The autoStart effect with its cleanup, run after a render in which autoStart or start
\* differs from the render before; start changes with currentDelay.
HiAutoStartEffect(s, rerun, autoStart, r, now) ==
    IF rerun
    THEN IF autoStart THEN HiStart(HiClear(s), s.currentDelay, r, now) ELSE HiClear(s)
    ELSE s

HiCommit(s) ==
    /\ hiCurrentDelay' = s.currentDelay
    /\ hiIsRunning' = s.isRunning
    /\ hiIntervalId' = s.intervalId
    /\ hiNextIntervalDelay' = s.nextIntervalDelay
    /\ hiTimers' = s.timers
    /\ hiNextId' = s.nextId
    /\ hiDraws' = s.draws
    /\ hiLastDraw' = s.lastDraw

HiInit ==
    /\ hiPhase = "new"
    /\ hiCallback = 1
    /\ hiRandom \in BOOLEAN
    /\ hiAutoStart \in BOOLEAN
    /\ hiMinDelay \in HiMinDelays(hiRandom)
    /\ hiCallbackRef = hiCallback
    /\ hiCurrentDelay \in HiDelays
    /\ hiIsRunning = FALSE
    /\ hiIntervalId = HiNoTimer
    /\ hiNextIntervalDelay = NullDelay
    /\ hiTimers = {}
    /\ hiNextId = 1
    /\ hiNow = 0
    /\ hiCalls = 0
    /\ hiLastCalled = 0
    /\ hiDraws = 0
    /\ hiLastDraw = 0
    /\ hiCalled = {}
    /\ hiOps = 0
    /\ StIdle /\ QIdle /\ DbIdle /\ TmIdle /\ IvIdle /\ LbIdle /\ L2Idle
    /\ CcIdle /\ IdIdle /\ MqIdle /\ TgIdle /\ PlIdle /\ WwIdle /\ BoIdle

\* The first render and its two effects.
HiMount ==
    /\ hiPhase = "new"
    /\ hiPhase' = "mounted"
    /\ hiCallbackRef' = hiCallback
    /\ \E r \in HiSamples :
           HiCommit(IF hiAutoStart THEN HiStart(HiState, hiCurrentDelay, r, hiNow)
                                   ELSE HiState)
    /\ UNCHANGED <<hiCallback, hiRandom, hiAutoStart, hiMinDelay, hiNow, hiCalls,
                   hiLastCalled, hiCalled, hiOps>>
    /\ UNCHANGED HiOthers

\* The component renders again with this callback and autoStart.
HiRerender(callback, autoStart) ==
    /\ hiPhase = "mounted"
    /\ hiOps < HiMaxOps
    /\ hiOps' = hiOps + 1
    /\ hiCallback' = callback /\ hiAutoStart' = autoStart
    /\ hiCallbackRef' = callback
    /\ \E r \in HiSamples :
           HiCommit(HiAutoStartEffect(HiState, autoStart # hiAutoStart, autoStart, r, hiNow))
    /\ UNCHANGED <<hiPhase, hiRandom, hiMinDelay, hiNow, hiCalls, hiLastCalled, hiCalled>>
    /\ UNCHANGED HiOthers

HiRender == \E callback \in HiCallbacks, autoStart \in BOOLEAN :
                HiRerender(callback, autoStart)

\* The component calls one of the returned functions of the latest render; the render
\* that follows runs the autoStart effect again when currentDelay has changed.
HiCall(name, s) ==
    /\ hiPhase = "mounted"
    /\ hiOps < HiMaxOps
    /\ hiOps' = hiOps + 1
    /\ hiCalled' = hiCalled \cup {name}
    /\ \E r \in HiSamples :
           HiCommit(HiAutoStartEffect(s, s.currentDelay # hiCurrentDelay, hiAutoStart,
                                      r, hiNow))
    /\ UNCHANGED <<hiPhase, hiCallback, hiRandom, hiAutoStart, hiMinDelay, hiCallbackRef,
                   hiNow, hiCalls, hiLastCalled>>
    /\ UNCHANGED HiOthers

HiCallStart ==
    \E r \in HiSamples : HiCall("start", HiStart(HiState, hiCurrentDelay, r, hiNow))

HiCallPause == HiCall("pause", HiPause(HiState))

HiCallReset ==
    \E r \in HiSamples : HiCall("reset", HiReset(HiState, hiCurrentDelay, r, hiNow))

HiCallSetDelay ==
    \E newDelay \in HiDelays, r \in HiSamples :
        HiCall("setDelay",
               HiSetDelay(HiState, newDelay, hiIsRunning, hiCurrentDelay, r, hiNow))

\* A millisecond passes; a timer that is due fires before the clock moves on.
HiTick ==
    /\ hiPhase # "new"
    /\ hiNow < HiMaxTime
    /\ \A t \in hiTimers : t.due > hiNow
    /\ hiNow' = hiNow + 1
    /\ UNCHANGED <<hiPhase, hiCallback, hiRandom, hiAutoStart, hiMinDelay, hiCallbackRef,
                   hiCurrentDelay, hiIsRunning, hiIntervalId, hiNextIntervalDelay, hiTimers,
                   hiNextId, hiCalls, hiLastCalled, hiDraws, hiLastDraw, hiCalled, hiOps>>
    /\ UNCHANGED HiOthers

\* A due interval timer fires.  start()'s handler calls callbackRef.current() and, with
\* random, clears the timer and arms another whose handler is callbackRef.current itself;
\* that handler is the callback alone.  A timer that is not cleared is due again one period
\* later.
HiFire ==
    \E t \in hiTimers :
        /\ t.due <= hiNow
        /\ hiCalls' = hiCalls + 1
        /\ hiLastCalled' = IF t.handler = "tick" THEN hiCallbackRef ELSE t.cb
        /\ IF t.handler = "tick" /\ hiRandom
           THEN \E r \in HiSamples :
                    HiCommit(HiArm(HiClear(HiState), "callback", hiCallbackRef, t.delay,
                                   r, hiNow))
           ELSE HiCommit([HiState EXCEPT !.timers =
                              (hiTimers \ {t}) \cup {[t EXCEPT !.due = t.due + t.period]}])
        /\ UNCHANGED <<hiPhase, hiCallback, hiRandom, hiAutoStart, hiMinDelay,
                       hiCallbackRef, hiNow, hiCalled, hiOps>>
        /\ UNCHANGED HiOthers

\* Unmount: the cleanup of the autoStart effect, which is clear().
HiUnmount ==
    /\ hiPhase = "mounted"
    /\ hiPhase' = "unmounted"
    /\ HiCommit(HiClear(HiState))
    /\ UNCHANGED <<hiCallback, hiRandom, hiAutoStart, hiMinDelay, hiCallbackRef, hiNow,
                   hiCalls, hiLastCalled, hiCalled, hiOps>>
    /\ UNCHANGED HiOthers

HiNext ==
    \/ HiMount \/ HiRender \/ HiCallStart \/ HiCallPause \/ HiCallReset \/ HiCallSetDelay
    \/ HiTick \/ HiFire \/ HiUnmount

SpecHandledInterval == HiInit /\ [][HiNext]_vars

\* ---- claims about useHandledInterval

\* C15: at most one timer is armed in every reachable state, in fixed and in random
\* mode, and it is the one intervalId.current names; start() called while a timer is
\* armed arms nothing; after a reset() or setDelay() that armed a timer, no timer armed
\* before the call is left.
C15_AtMostOneTimer ==
    /\ [](/\ Cardinality(hiTimers) <= 1
          /\ \A t \in hiTimers : t.id = hiIntervalId)
    /\ [][/\ (HiCallStart /\ hiTimers # {}) =>
                 (hiTimers' = hiTimers /\ hiNextId' = hiNextId)
          /\ ((HiCallReset \/ HiCallSetDelay) /\ hiNextId' # hiNextId) =>
                 \A t \in hiTimers' : t.id >= hiNextId
         ]_vars

\* C15 witness: random mode, started at mount; start() while armed armed nothing and
\* reset() replaced the timer: two timers armed in all, one left.
C15_Witness ==
    /\ hiPhase = "mounted" /\ hiRandom /\ hiAutoStart
    /\ hiOps = 2 /\ hiCalled = {"start", "reset"}
    /\ hiNextId = 3 /\ hiCalls = 0
    /\ Cardinality(hiTimers) = 1

\* C16 (as claimed): with random = true every firing samples a new duration from a fresh
\* Math.random() and leaves one timer due that newly sampled duration later.
C16_FreshSampleEachFiring ==
    [][(hiRandom /\ HiFire) =>
           /\ hiDraws' = hiDraws + 1
           /\ \E t \in hiTimers' :
                  /\ hiTimers' = {t}
                  /\ t.due = hiNow + GetRandomDelay(hiCurrentDelay, hiLastDraw')
      ]_vars

\* C17 (as claimed): every tick invokes the callback of the latest render.
C17_TickCallsLatestCallback ==
    [][HiFire => hiLastCalled' = hiCallback]_vars

\* C18 (as claimed): setDelay keeps the running status: a running interval is running
\* afterwards with one timer armed, in fixed mode ticking every newDelay ms from the call;
\* a paused one stays paused with no timer armed.
C18_SetDelayKeepsStatus ==
    [][HiCallSetDelay =>
           /\ hiIsRunning' = hiIsRunning
           /\ hiIsRunning =>
                  /\ Cardinality(hiTimers') = 1
                  /\ ~hiRandom => \A t \in hiTimers' :
                                      /\ t.due = hiNow + hiCurrentDelay'
                                      /\ t.period = hiCurrentDelay'
           /\ ~hiIsRunning => hiTimers' = {}
      ]_vars

\* -------------------------------------------------------------------
\* useLockBodyScroll (src/src/hooks/useLockBodyScroll.ts), default additionalStyles and
\* preservePosition
\* -------------------------------------------------------------------

\* Calls and re-renders per behaviour of useLockBodyScroll.
LbMaxOps == 3
\* Renders that may follow one another before the state is settled.
LbMaxPasses == 3

\* The style properties lock() saves and sets.
LbProps == {"overflow", "position", "top", "width"}

\* `-${scrollPosition}px`
LbTop(scrollPosition) ==
    CASE scrollPosition = 0 -> "-0px"
      [] scrollPosition = 1 -> "-1px"
      [] scrollPosition = 2 -> "-2px"
      [] OTHER -> "-3px"

\* The values document.body.style may have before the hook is mounted.
LbInitialBodies ==
    [overflow : {"", "scroll"}, position : {"", "relative"}, top : {""}, width : {""}]

\* useState({}): no style saved.
LbNoStyles == [captured |-> FALSE, styles |-> [p \in LbProps |-> ""]]

\* applyStyles(styles): every key of styles is written to document.body.style.
ApplyStyles(body, styles) == IF styles.captured THEN styles.styles ELSE body

\* What the functions of a render hold of the state.
LbClosureOf(s) == [isLocked |-> s.isLocked, originalStyles |-> s.originalStyles,
                   scrollPosition |-> s.scrollPosition]

LbState == [body |-> lbBody, isLocked |-> lbIsLocked, originalStyles |-> lbOriginalStyles,
            scrollPosition |-> lbScrollPosition, closure |-> lbClosure]

\* lock() of a render that holds c.
Lock(s, c) ==
    IF ~c.isLocked
    THEN [s EXCEPT !.scrollPosition = lbPageYOffset,
                   !.originalStyles = [captured |-> TRUE, styles |-> s.body],
                   !.body = [overflow |-> "hidden", position |-> "fixed",
                             top |-> LbTop(c.scrollPosition), width |-> "100%"],
                   !.isLocked = TRUE]
    ELSE s

\* unlock() of a render that holds c.
Unlock(s, c) ==
    IF c.isLocked
    THEN [s EXCEPT !.body = ApplyStyles(s.body, c.originalStyles),
                   !.isLocked = FALSE]
    ELSE s

\* toggle() of a render that holds c.
Toggle(s, c) == IF c.isLocked THEN Unlock(s, c) ELSE Lock(s, c)

\* The effect of a render that holds c, without its cleanup.
LbEffect(s, c) ==
    IF lbLockImmediately
    THEN [Lock(s, c) EXCEPT
              !.body = [overflow |-> "hidden", position |-> "fixed",
                        top |-> IF c.scrollPosition > 0 THEN LbTop(c.scrollPosition)
                                                        ELSE "-0px",
                        width |-> "100%"]]
    ELSE s

\* One render: its functions hold the current state; the cleanup of the render before
\* runs (unlock of that render) and then the effect.  With the default additionalStyles,
\* a new object in each render, the effect runs after every render.
LbRenderPass(s) ==
    LET c == LbClosureOf(s)
    IN  [LbEffect(Unlock(s, s.closure), c) EXCEPT !.closure = c]

\* The renders that follow a change of state, until a render changes nothing.
RECURSIVE LbSettle(_, _)
LbSettle(s, passes) ==
    IF passes = 0 \/ LbClosureOf(s) = s.closure
    THEN s
    ELSE LbSettle(LbRenderPass(s), passes - 1)

LbCommit(s) ==
    /\ lbBody' = s.body
    /\ lbIsLocked' = s.isLocked
    /\ lbOriginalStyles' = s.originalStyles
    /\ lbScrollPosition' = s.scrollPosition
    /\ lbClosure' = s.closure

LbInit ==
    /\ lbPhase = "new"
    /\ lbLockImmediately \in BOOLEAN
    /\ lbPageYOffset \in Values
    /\ lbBody \in LbInitialBodies
    /\ lbIsLocked = lbLockImmediately
    /\ lbOriginalStyles = LbNoStyles
    /\ lbScrollPosition = 0
    /\ lbClosure = [isLocked |-> lbIsLocked, originalStyles |-> lbOriginalStyles,
                    scrollPosition |-> lbScrollPosition]
    /\ lbBefore = lbBody
    /\ lbLastCall = "none"
    /\ lbOps = 0
    /\ StIdle /\ QIdle /\ DbIdle /\ TmIdle /\ IvIdle /\ HiIdle /\ L2Idle
    /\ CcIdle /\ IdIdle /\ MqIdle /\ TgIdle /\ PlIdle /\ WwIdle /\ BoIdle

\* The first render, its effect, and the renders that follow.
LbMount ==
    /\ lbPhase = "new"
    /\ lbPhase' = "mounted"
    /\ LbCommit(LbSettle(LbEffect(LbState, lbClosure), LbMaxPasses))
    /\ UNCHANGED <<lbLockImmediately, lbPageYOffset, lbBefore, lbLastCall, lbOps>>
    /\ UNCHANGED LbOthers

\* The component calls a returned function of the latest render; the renders follow.
LbCall(name, s) ==
    /\ lbPhase = "mounted"
    /\ lbOps < LbMaxOps
    /\ lbOps' = lbOps + 1
    /\ lbLastCall' = name
    /\ LbCommit(LbSettle(s, LbMaxPasses))
    /\ UNCHANGED <<lbPhase, lbLockImmediately, lbPageYOffset, lbBefore>>
    /\ UNCHANGED LbOthers

LbCallLock == LbCall("lock", Lock(LbState, lbClosure))

LbCallUnlock == LbCall("unlock", Unlock(LbState, lbClosure))

LbCallToggle == LbCall("toggle", Toggle(LbState, lbClosure))

\* The owning component renders again.
LbRerender == LbCall("render", LbSettle(LbRenderPass(LbState), LbMaxPasses))

\* Unmount: the cleanup of the latest effect, which is unlock of the latest render.
LbUnmount ==
    /\ lbPhase = "mounted"
    /\ lbPhase' = "unmounted"
    /\ LbCommit(Unlock(LbState, lbClosure))
    /\ UNCHANGED <<lbLockImmediately, lbPageYOffset, lbBefore, lbLastCall, lbOps>>
    /\ UNCHANGED LbOthers

LbNext ==
    \/ LbMount \/ LbCallLock \/ LbCallUnlock \/ LbCallToggle \/ LbRerender \/ LbUnmount

SpecLockBodyScroll == LbInit /\ [][LbNext]_vars

\* ---- claims about useLockBodyScroll

\* C19 (as claimed): with lockImmediately = true the body's overflow is 'hidden' after the
\* mount, and after an unmount overflow, position, top and width are what they were
\* immediately before the mount.
C19_UnmountRestoresBody ==
    lbLockImmediately =>
        /\ (lbPhase = "mounted" /\ lbOps = 0) => lbBody.overflow = "hidden"
        /\ (lbPhase = "unmounted" /\ lbOps = 0) => lbBody = lbBefore

\* C20 (as claimed): unlock() on a locked instance restores the style values the lock
\* captured and leaves isLocked false, and isLocked stays false until lock() or toggle()
\* is called, for lockImmediately true and false.
C20_UnlockRestoresAndStays ==
    [][/\ (LbCallUnlock /\ lbIsLocked) =>
              /\ ~lbIsLocked'
              /\ lbOriginalStyles.captured => lbBody' = lbOriginalStyles.styles
       /\ (~lbIsLocked /\ lbPhase = "mounted" /\ ~(LbCallLock \/ LbCallToggle)) =>
              ~lbIsLocked'
      ]_vars

\* C34 (as claimed): lock() on an unlocked instance, preservePosition being true, sets the
\* body's top to minus the vertical scroll offset the window has when lock() is called,
\* for the first lock of an instance as for later ones.
C34_LockTopIsMinusOffset ==
    [][(LbCallLock /\ ~lbIsLocked) => lbBody'.top = LbTop(lbPageYOffset)]_vars

\* C38 (as claimed): with the default options, a re-render of the owning component that
\* changes no option leaves isLocked and the body's styles unchanged; a body locked
\* through lock() stays locked across re-renders.
C38_RerenderChangesNothing ==
    [][(LbRerender /\ lbLockImmediately) =>
           (lbIsLocked' = lbIsLocked /\ lbBody' = lbBody)]_vars

\* The renders after every step are settled: a further render would change no state.
LbSettled == lbPhase = "mounted" => lbClosure = LbClosureOf(LbState)


\* -------------------------------------------------------------------
\* useLockBodyScroll, two instances mounted at the same time: both write the one
\* document.body.style (lbBody); the first instance is the one modelled above
\* -------------------------------------------------------------------

\* The second instance's state, on the shared body.
L2State == [body |-> lbBody, isLocked |-> l2IsLocked, originalStyles |-> l2OriginalStyles,
            scrollPosition |-> l2ScrollPosition, closure |-> l2Closure]

L2Commit(s) ==
    /\ lbBody' = s.body
    /\ l2IsLocked' = s.isLocked
    /\ l2OriginalStyles' = s.originalStyles
    /\ l2ScrollPosition' = s.scrollPosition
    /\ l2Closure' = s.closure

\* What a step of the second instance leaves alone of the first.
L2FirstKept == <<lbPhase, lbLockImmediately, lbPageYOffset, lbIsLocked, lbOriginalStyles,
                 lbScrollPosition, lbClosure, lbBefore, lbLastCall, lbOps>>

\* Neither instance is rendered yet; both take the same options.
L2Init ==
    /\ lbPhase = "new"
    /\ lbLockImmediately \in BOOLEAN
    /\ lbPageYOffset \in Values
    /\ lbBody \in LbInitialBodies
    /\ lbIsLocked = lbLockImmediately
    /\ lbOriginalStyles = LbNoStyles
    /\ lbScrollPosition = 0
    /\ lbClosure = [isLocked |-> lbIsLocked, originalStyles |-> lbOriginalStyles,
                    scrollPosition |-> lbScrollPosition]
    /\ lbBefore = lbBody
    /\ lbLastCall = "none"
    /\ lbOps = 0
    /\ l2Phase = "new"
    /\ l2IsLocked = lbLockImmediately
    /\ l2OriginalStyles = LbNoStyles
    /\ l2ScrollPosition = 0
    /\ l2Closure = [isLocked |-> l2IsLocked, originalStyles |-> l2OriginalStyles,
                    scrollPosition |-> l2ScrollPosition]
    /\ l2LastCall = "none"
    /\ l2Ops = 0
    /\ StIdle /\ QIdle /\ DbIdle /\ TmIdle /\ IvIdle /\ HiIdle /\ CcIdle
    /\ IdIdle /\ MqIdle /\ TgIdle /\ PlIdle /\ WwIdle /\ BoIdle

\* The first render of the second instance, its effect, and the renders that follow.
L2Mount ==
    /\ l2Phase = "new"
    /\ l2Phase' = "mounted"
    /\ L2Commit(LbSettle(LbEffect(L2State, l2Closure), LbMaxPasses))
    /\ UNCHANGED <<l2LastCall, l2Ops>>
    /\ UNCHANGED L2FirstKept
    /\ UNCHANGED L2Others

\* The second component calls a returned function of its latest render.
L2Call(name, s) ==
    /\ l2Phase = "mounted"
    /\ l2Ops < LbMaxOps
    /\ l2Ops' = l2Ops + 1
    /\ l2LastCall' = name
    /\ L2Commit(LbSettle(s, LbMaxPasses))
    /\ UNCHANGED l2Phase
    /\ UNCHANGED L2FirstKept
    /\ UNCHANGED L2Others

L2CallLock == L2Call("lock", Lock(L2State, l2Closure))

L2CallUnlock == L2Call("unlock", Unlock(L2State, l2Closure))

\* Unmount of the second instance: unlock of its latest render.
L2Unmount ==
    /\ l2Phase = "mounted"
    /\ l2Phase' = "unmounted"
    /\ L2Commit(Unlock(L2State, l2Closure))
    /\ UNCHANGED <<l2LastCall, l2Ops>>
    /\ UNCHANGED L2FirstKept
    /\ UNCHANGED L2Others

\* Either instance takes a step.
L2Next == LbNext \/ L2Mount \/ L2CallLock \/ L2CallUnlock \/ L2Unmount

SpecTwoLocks == L2Init /\ [][L2Next]_vars

\* ---- claims about two instances of useLockBodyScroll

\* The body carries the lock styles.
LbCarriesLock(body) == body.overflow = "hidden" /\ body.position = "fixed"

\* C21 (as claimed): for every interleaving of lock(), unlock() and unmount on two
\* instances, once both are unmounted the body does not carry the lock styles (overflow
\* hidden, position fixed) unless it carried them before either instance locked.
C21_BothUnmountedBodyFree ==
    (lbPhase = "unmounted" /\ l2Phase = "unmounted") =>
        (LbCarriesLock(lbBody) => LbCarriesLock(lbBefore))

\* -------------------------------------------------------------------
\* useCopyToClipboard (src/src/hooks/useCopyToClipboard.ts)
\* -------------------------------------------------------------------

\* copy() and reset() calls per behaviour of useCopyToClipboard.
CcMaxOps == 3
\* Steps of the clock per behaviour.
CcMaxTicks == 3

\* window.setTimeout(..., 2000)
CcResetDelay == 2000

\* The clock advances by one of these numbers of ms.
CcSteps == {1, CcResetDelay - 1, CcResetDelay}

\* error: null, and the error a failed write throws.
CcNoError == 0
CcWriteError == 1

\* timeoutRef.current = null
CcNoTimer == 0

\* No write has succeeded since the latest copy(), reset() or failure.
CcNever == -1

\* if (timeoutRef.current) window.clearTimeout(timeoutRef.current)
CcClearTimeout(timers, ref) == IF ref # CcNoTimer THEN {t \in timers : t.id # ref} ELSE timers

CcInit ==
    /\ ccPhase = "new"
    /\ ccCopied = FALSE
    /\ ccError = CcNoError
    /\ ccTimeoutRef = CcNoTimer
    /\ ccTimers = {}
    /\ ccNextId = 1
    /\ ccNow = 0
    /\ ccWaiting = 0
    /\ ccQuietSince = CcNever
    /\ ccTicks = 0
    /\ ccOps = 0
    /\ StIdle /\ QIdle /\ DbIdle /\ TmIdle /\ IvIdle /\ HiIdle /\ LbIdle
    /\ L2Idle /\ IdIdle /\ MqIdle /\ TgIdle /\ PlIdle /\ WwIdle /\ BoIdle

\* The first render.
CcMount ==
    /\ ccPhase = "new"
    /\ ccPhase' = "mounted"
    /\ UNCHANGED <<ccCopied, ccError, ccTimeoutRef, ccTimers, ccNextId, ccNow, ccWaiting,
                   ccQuietSince, ccTicks, ccOps>>
    /\ UNCHANGED CcOthers

\* copy(text) up to its await: the timer timeoutRef names is cleared and the write starts.
CcCopy ==
    /\ ccPhase = "mounted"
    /\ ccOps < CcMaxOps
    /\ ccOps' = ccOps + 1
    /\ ccTimers' = CcClearTimeout(ccTimers, ccTimeoutRef)
    /\ ccWaiting' = ccWaiting + 1
    /\ ccQuietSince' = CcNever
    /\ UNCHANGED <<ccPhase, ccCopied, ccError, ccTimeoutRef, ccNextId, ccNow, ccTicks>>
    /\ UNCHANGED CcOthers

\* A write succeeds and copy() goes on after its await: the state is set (while the
\* component is mounted) and the auto-reset timer is armed.
CcWriteResolves ==
    /\ ccWaiting > 0
    /\ ccWaiting' = ccWaiting - 1
    /\ IF ccPhase = "mounted"
       THEN ccCopied' = TRUE /\ ccError' = CcNoError
       ELSE UNCHANGED <<ccCopied, ccError>>
    /\ ccTimers' = ccTimers \cup {[id |-> ccNextId, due |-> ccNow + CcResetDelay]}
    /\ ccTimeoutRef' = ccNextId
    /\ ccNextId' = ccNextId + 1
    /\ ccQuietSince' = ccNow
    /\ UNCHANGED <<ccPhase, ccNow, ccTicks, ccOps>>
    /\ UNCHANGED CcOthers

\* A write fails and copy() goes on in its catch.
CcWriteRejects ==
    /\ ccWaiting > 0
    /\ ccWaiting' = ccWaiting - 1
    /\ IF ccPhase = "mounted"
       THEN ccCopied' = FALSE /\ ccError' = CcWriteError
       ELSE UNCHANGED <<ccCopied, ccError>>
    /\ ccQuietSince' = CcNever
    /\ UNCHANGED <<ccPhase, ccTimeoutRef, ccTimers, ccNextId, ccNow, ccTicks, ccOps>>
    /\ UNCHANGED CcOthers

\* reset()
CcReset ==
    /\ ccPhase = "mounted"
    /\ ccOps < CcMaxOps
    /\ ccOps' = ccOps + 1
    /\ ccTimers' = CcClearTimeout(ccTimers, ccTimeoutRef)
    /\ ccCopied' = FALSE /\ ccError' = CcNoError
    /\ ccQuietSince' = CcNever
    /\ UNCHANGED <<ccPhase, ccTimeoutRef, ccNextId, ccNow, ccWaiting, ccTicks>>
    /\ UNCHANGED CcOthers

\* The clock advances; a timer fires when it is due, not later.
CcTick ==
    /\ ccPhase # "new"
    /\ ccTicks < CcMaxTicks
    /\ \E d \in CcSteps :
           /\ \A t \in ccTimers : t.due >= ccNow + d
           /\ ccNow' = ccNow + d
    /\ ccTicks' = ccTicks + 1
    /\ UNCHANGED <<ccPhase, ccCopied, ccError, ccTimeoutRef, ccTimers, ccNextId, ccWaiting,
                   ccQuietSince, ccOps>>
    /\ UNCHANGED CcOthers

\* A due timer fires: setState((prev) => ({ ...prev, copied: false })).
CcFire ==
    /\ \E t \in ccTimers :
           /\ t.due <= ccNow
           /\ ccTimers' = ccTimers \ {t}
    /\ ccCopied' = IF ccPhase = "mounted" THEN FALSE ELSE ccCopied
    /\ UNCHANGED <<ccPhase, ccError, ccTimeoutRef, ccNextId, ccNow, ccWaiting, ccQuietSince,
                   ccTicks, ccOps>>
    /\ UNCHANGED CcOthers

\* Unmount: the effect's cleanup.
CcUnmount ==
    /\ ccPhase = "mounted"
    /\ ccPhase' = "unmounted"
    /\ ccTimers' = CcClearTimeout(ccTimers, ccTimeoutRef)
    /\ UNCHANGED <<ccCopied, ccError, ccTimeoutRef, ccNextId, ccNow, ccWaiting, ccQuietSince,
                   ccTicks, ccOps>>
    /\ UNCHANGED CcOthers

CcNext ==
    \/ CcMount \/ CcCopy \/ CcWriteResolves \/ CcWriteRejects \/ CcReset \/ CcTick
    \/ CcFire \/ CcUnmount

SpecCopyToClipboard == CcInit /\ [][CcNext]_vars

\* ---- claims about useCopyToClipboard

\* C22 (as claimed): after a copy() whose write succeeds copied is true and error null;
\* with no further copy() or reset() copied stays true for 2000 ms and then becomes false,
\* error unchanged; reset() at any time cancels the pending auto-reset timer and sets
\* copied = false, error = null.
C22_AutoResetAfter2000 ==
    /\ [](ccPhase = "mounted" /\ ccQuietSince # CcNever =>
              /\ ccError = CcNoError
              /\ ccNow < ccQuietSince + CcResetDelay => ccCopied
              /\ ccNow > ccQuietSince + CcResetDelay => ~ccCopied)
    /\ [][/\ (CcWriteResolves /\ ccPhase = "mounted") => (ccCopied' /\ ccError' = CcNoError)
          /\ CcFire => ccError' = ccError
          /\ CcReset => (ccTimers' = {} /\ ~ccCopied' /\ ccError' = CcNoError)]_vars

\* C23 (as claimed): once the component has unmounted no auto-reset timer is pending and
\* none is armed afterwards, also when a copy() that waited for the write at the unmount
\* completes later.
C23_NoTimerAfterUnmount == ccPhase = "unmounted" => ccTimers = {}

\* C35 (as claimed): at most one auto-reset timer is pending per instance under every
\* interleaving, a second copy() called before the first copy()'s write has completed
\* included.
C35_AtMostOneTimer == ccPhase = "mounted" => Cardinality(ccTimers) <= 1

\* -------------------------------------------------------------------
\* useIdleness (src/src/hooks/useIdleness.ts, the version with start / stop / reset),
\* options unchanged from render to render
\* -------------------------------------------------------------------

\* Calls and activity events per behaviour of useIdleness.
IdMaxOps == 3
\* Option timeout is 1..IdMaxTimeout ms.
IdMaxTimeout == 2
\* The clock runs from 0 to IdMaxTime ms.
IdMaxTime == 4

\* timerId.current = null
IdNoTimer == 0

\* No activity listener is registered.
IdNoListener == [on |-> FALSE, idle |-> FALSE, isMonitoring |-> FALSE]

\* What the functions of a render hold of the state.
IdClosureOf(s) == [idle |-> s.idle, isMonitoring |-> s.isMonitoring]

IdState == [idle |-> idIdle, isMonitoring |-> idIsMonitoring, timerId |-> idTimerId,
            timers |-> idTimers, nextId |-> idNextId, closure |-> idClosure,
            listener |-> idListener, notices |-> idNotices]

\* clearTimer()
IdClearTimer(s) ==
    IF s.timerId # IdNoTimer
    THEN [s EXCEPT !.timers = {t \in s.timers : t.id # s.timerId}, !.timerId = IdNoTimer]
    ELSE s

\* setIdleState(newState) of a render that holds c.
IdSetIdleState(s, c, newState) ==
    IF idMounted /\ c.idle # newState
    THEN [s EXCEPT !.idle = newState, !.notices = Append(@, newState)]
    ELSE s

\* timerId.current = setTimeout(() => setIdleState(true), timeout) in a render that holds c.
IdArm(s, c) ==
    [s EXCEPT !.timers = @ \cup {[id |-> s.nextId, due |-> idNow + idTimeout, idle |-> c.idle]},
              !.timerId = s.nextId,
              !.nextId = @ + 1]

\* resetTimer() that leaves the timer it finds armed.
IdResetTimer_NoClear(s, c) ==
    LET s1 == IdSetIdleState(s, c, FALSE)
    IN  IF c.isMonitoring THEN IdArm(s1, c) ELSE s1

\* resetTimer() of a render that holds c.
IdResetTimer(s, c) ==
    LET s1 == IdSetIdleState(IdClearTimer(s), c, FALSE)
    IN  IF c.isMonitoring THEN IdArm(s1, c) ELSE s1

\* start() of a render that holds c.
IdStart(s, c) == IdResetTimer(IdResetTimer([s EXCEPT !.isMonitoring = TRUE], c), c)

\* stop() of a render that holds c.
IdStop(s, c) == IdSetIdleState(IdClearTimer([s EXCEPT !.isMonitoring = FALSE]), c, FALSE)

\* The monitoring effect of a render that holds c, without the cleanup before it.
IdEffect(s, c) ==
    IF c.isMonitoring
    THEN IdArm([s EXCEPT !.listener = [on |-> TRUE, idle |-> c.idle,
                                       isMonitoring |-> c.isMonitoring]], c)
    ELSE s

\* The cleanup of the monitoring effect.
IdCleanup(s) == [IdClearTimer(s) EXCEPT !.listener = IdNoListener]

\* The render that follows a change of idle or isMonitoring: setIdleState and resetTimer
\* are new functions, so the monitoring effect runs again after its cleanup.
IdRender(s) ==
    LET c == IdClosureOf(s)
    IN  IF c = s.closure THEN s ELSE [IdEffect(IdCleanup(s), c) EXCEPT !.closure = c]

IdCommit(s) ==
    /\ idIdle' = s.idle
    /\ idIsMonitoring' = s.isMonitoring
    /\ idTimerId' = s.timerId
    /\ idTimers' = s.timers
    /\ idNextId' = s.nextId
    /\ idClosure' = s.closure
    /\ idListener' = s.listener
    /\ idNotices' = s.notices

IdInit ==
    /\ idPhase = "new"
    /\ idTimeout \in 1 .. IdMaxTimeout
    /\ idStartImmediately \in BOOLEAN
    /\ idIdle = FALSE
    /\ idIsMonitoring = idStartImmediately
    /\ idTimerId = IdNoTimer
    /\ idMounted = TRUE
    /\ idTimers = {}
    /\ idNextId = 1
    /\ idClosure = [idle |-> idIdle, isMonitoring |-> idIsMonitoring]
    /\ idListener = IdNoListener
    /\ idNotices = <<>>
    /\ idNow = 0
    /\ idSince = 0
    /\ idLastCall = "none"
    /\ idOps = 0
    /\ StIdle /\ QIdle /\ DbIdle /\ TmIdle /\ IvIdle /\ HiIdle /\ LbIdle
    /\ L2Idle /\ CcIdle /\ MqIdle /\ TgIdle /\ PlIdle /\ WwIdle /\ BoIdle

\* The first render and its effects.
IdMount ==
    /\ idPhase = "new"
    /\ idPhase' = "mounted"
    /\ IdCommit(IdEffect(IdState, idClosure))
    /\ idSince' = idNow
    /\ UNCHANGED <<idTimeout, idStartImmediately, idMounted, idNow, idLastCall, idOps>>
    /\ UNCHANGED IdOthers

\* The component calls a returned function, or the window dispatches an activity event;
\* the render follows.
IdCall(name, s) ==
    /\ idPhase = "mounted"
    /\ idOps < IdMaxOps
    /\ idOps' = idOps + 1
    /\ idLastCall' = name
    /\ IdCommit(IdRender(s))
    /\ idSince' = IF name = "stop" THEN idSince ELSE idNow
    /\ UNCHANGED <<idPhase, idTimeout, idStartImmediately, idMounted, idNow>>
    /\ UNCHANGED IdOthers

IdCallStart == IdCall("start", IdStart(IdState, idClosure))

IdCallStop == IdCall("stop", IdStop(IdState, idClosure))

IdCallReset == IdCall("reset", IdResetTimer(IdState, idClosure))

\* One of the configured events is dispatched while the listener is registered.
IdActivity ==
    /\ idListener.on
    /\ IdCall("activity", IdResetTimer(IdState, idListener))

\* The clock advances; a timer fires when it is due, not later.
IdTick ==
    /\ idPhase # "new"
    /\ idNow < IdMaxTime
    /\ \A t \in idTimers : t.due > idNow
    /\ idNow' = idNow + 1
    /\ idLastCall' = "tick"
    /\ UNCHANGED <<idPhase, idTimeout, idStartImmediately, idIdle, idIsMonitoring, idTimerId,
                   idMounted, idTimers, idNextId, idClosure, idListener, idNotices, idSince,
                   idOps>>
    /\ UNCHANGED IdOthers

\* A due timer fires: setIdleState(true) of the render that armed it; the render follows.
IdFire ==
    /\ idPhase = "mounted"
    /\ \E t \in idTimers :
           /\ t.due <= idNow
           /\ IdCommit(IdRender(IdSetIdleState([IdState EXCEPT !.timers = @ \ {t}],
                                               [idle |-> t.idle], TRUE)))
    /\ idLastCall' = "fire"
    /\ UNCHANGED <<idPhase, idTimeout, idStartImmediately, idMounted, idNow, idSince, idOps>>
    /\ UNCHANGED IdOthers

\* Unmount: the cleanups of both effects.
IdUnmount ==
    /\ idPhase = "mounted"
    /\ idPhase' = "unmounted"
    /\ IdCommit(IdCleanup(IdState))
    /\ idMounted' = FALSE
    /\ UNCHANGED <<idTimeout, idStartImmediately, idNow, idSince, idLastCall, idOps>>
    /\ UNCHANGED IdOthers

IdNext ==
    \/ IdMount \/ IdCallStart \/ IdCallStop \/ IdCallReset \/ IdActivity \/ IdTick
    \/ IdFire \/ IdUnmount

SpecIdleness == IdInit /\ [][IdNext]_vars

\* ---- claims about useIdleness

\* C24: while monitoring, isIdle is false until timeout ms have elapsed since the most
\* recent of mount, start(), reset() or an activity event and true after that; it becomes
\* true exactly then; an activity event or reset() while idle sets isIdle back to false
\* and starts a new full timeout.
C24_IdleExactlyAfterTimeout ==
    /\ [](idPhase = "mounted" /\ idIsMonitoring =>
              /\ idNow < idSince + idTimeout => ~idIdle
              /\ idNow > idSince + idTimeout => idIdle
              /\ ~idIdle => \E t \in idTimers : t.due = idSince + idTimeout /\ ~t.idle)
    /\ [][/\ (~idIdle /\ idIdle') => (IdFire /\ idNow = idSince + idTimeout)
          /\ (idIsMonitoring /\ idIdle /\ (IdActivity \/ IdCallReset)) =>
                 /\ ~idIdle'
                 /\ \A t \in idTimers' : t.due = idNow + idTimeout]_vars

\* C24 witness: idle after the timeout, active again by an activity event later, and idle
\* again one full timeout after that event.
C24_Witness ==
    /\ idPhase = "mounted" /\ idIsMonitoring /\ idIdle
    /\ idNotices = <<TRUE, FALSE, TRUE>>
    /\ idSince > idTimeout /\ idNow = idSince + idTimeout
    /\ idOps = 1 /\ idListener.on

\* C25 (as claimed): no two consecutive onIdleChange invocations carry the same boolean,
\* and the first invocation carries true.
C25_OnIdleChangeAlternates ==
    /\ \A i \in 1 .. Len(idNotices) - 1 : idNotices[i] # idNotices[i + 1]
    /\ idNotices # <<>> => idNotices[1]


\* ---- useIdleness in a component that passes an inline onIdleChange

\* The owning component renders again with a new onIdleChange function: setIdleState and
\* resetTimer are new functions, so the monitoring effect runs again after its cleanup.
IdRerender ==
    /\ idPhase = "mounted"
    /\ idOps < IdMaxOps
    /\ idOps' = idOps + 1
    /\ idLastCall' = "render"
    /\ LET c == IdClosureOf(IdState)
       IN  IdCommit([IdEffect(IdCleanup(IdState), c) EXCEPT !.closure = c])
    /\ UNCHANGED <<idPhase, idTimeout, idStartImmediately, idMounted, idNow, idSince>>
    /\ UNCHANGED IdOthers

IdInlineNext == IdNext \/ IdRerender

SpecIdlenessInline == IdInit /\ [][IdInlineNext]_vars

\* C40 (as claimed): a re-render that changes only the identity of onIdleChange does not
\* postpone idleness: while monitoring, isIdle becomes true timeout ms after the most
\* recent mount, start(), reset() or activity event, not timeout ms after the re-render.
C40_RerenderDoesNotPostpone ==
    /\ [](idPhase = "mounted" /\ idIsMonitoring =>
              (idNow > idSince + idTimeout => idIdle))
    /\ [][(~idIdle /\ idIdle') => idNow = idSince + idTimeout]_vars
\* -------------------------------------------------------------------
\* useMediaQuery (src/src/hooks/useMediaQuery.ts), in a window that has matchMedia
\* -------------------------------------------------------------------

\* Calls, re-renders and media changes per behaviour of useMediaQuery.
MqMaxOps == 3
\* The queries a render may pass are 1..MqMaxQuery.
MqMaxQuery == 2

MqQueries == 1 .. MqMaxQuery

\* The effect run added no listener: mediaQueryList and handler are null.
MqNoListener == 0

MqState == [shouldListen |-> mqShouldListen, matches |-> mqMatches,
            listeners |-> mqListeners, effect |-> mqEffect, deps |-> mqDeps,
            removed |-> mqRemoved, maxHeld |-> mqMaxHeld, nextId |-> mqNextId]

\* How many listeners are registered.
MqHeld(s) == Cardinality(s.listeners)

\* A cleanup that leaves its listener registered.
MqCleanup_Keep(s) == [s EXCEPT !.effect = MqNoListener]

\* The cleanup of the listener effect: removeEventListener('change', handler) on the list
\* of this run, if this run added a listener.
MqCleanup(s) ==
    IF s.effect # MqNoListener
    THEN [s EXCEPT !.listeners = {l \in @ : l.id # s.effect},
                   !.removed = [@ EXCEPT ![s.effect] = @ + 1],
                   !.effect = MqNoListener]
    ELSE s

\* The listener effect for this query: matchMedia, setMatches, addEventListener.
MqListenerEffect(s, query) ==
    IF s.shouldListen
    THEN LET added == [s EXCEPT !.matches = mqMedia[query],
                                !.listeners = @ \cup {[id |-> s.nextId, query |-> query]},
                                !.removed = (s.nextId :> 0) @@ @,
                                !.effect = s.nextId,
                                !.nextId = @ + 1]
         IN  [added EXCEPT !.maxHeld = IF MqHeld(added) > @ THEN MqHeld(added) ELSE @]
    ELSE s

\* The hydration effect: with ssrSafe, setMatches(window.matchMedia(query).matches).
MqHydrationEffect(s, query) ==
    IF mqSsrSafe THEN [s EXCEPT !.matches = mqMedia[query]] ELSE s

\* A render with this query and its effects: the listener effect runs again, after its
\* cleanup, when query or shouldListen changed, the hydration effect when query changed.
MqRender(s, query) ==
    LET deps == [query |-> query, shouldListen |-> s.shouldListen]
        s1 == IF deps # s.deps
              THEN [MqListenerEffect(MqCleanup(s), query) EXCEPT !.deps = deps]
              ELSE s
    IN  IF query # s.deps.query THEN MqHydrationEffect(s1, query) ELSE s1

MqCommit(s) ==
    /\ mqShouldListen' = s.shouldListen
    /\ mqMatches' = s.matches
    /\ mqListeners' = s.listeners
    /\ mqEffect' = s.effect
    /\ mqDeps' = s.deps
    /\ mqRemoved' = s.removed
    /\ mqMaxHeld' = s.maxHeld
    /\ mqNextId' = s.nextId

\* Before the first render: matches is initialised from window.matchMedia(query).
MqInit ==
    /\ mqPhase = "new"
    /\ mqQuery \in MqQueries
    /\ mqSsrSafe \in BOOLEAN
    /\ mqShouldListen \in BOOLEAN
    /\ mqMedia \in [MqQueries -> BOOLEAN]
    /\ mqMatches = mqMedia[mqQuery]
    /\ mqListeners = {}
    /\ mqEffect = MqNoListener
    /\ mqDeps = [query |-> mqQuery, shouldListen |-> mqShouldListen]
    /\ mqRemoved = <<>>
    /\ mqMaxHeld = 0
    /\ mqNextId = 1
    /\ mqLastCall = "none"
    /\ mqOps = 0
    /\ StIdle /\ QIdle /\ DbIdle /\ TmIdle /\ IvIdle /\ HiIdle /\ LbIdle
    /\ L2Idle /\ CcIdle /\ TgIdle /\ PlIdle /\ IdIdle /\ WwIdle /\ BoIdle

\* The first render and its two effects.
MqMount ==
    /\ mqPhase = "new"
    /\ mqPhase' = "mounted"
    /\ MqCommit(MqHydrationEffect(MqListenerEffect(MqState, mqQuery), mqQuery))
    /\ UNCHANGED <<mqQuery, mqSsrSafe, mqMedia, mqLastCall, mqOps>>
    /\ UNCHANGED MqOthers

\* A call, a re-render or a media change, and the render that follows it.
MqStep(name, s, query) ==
    /\ mqPhase = "mounted"
    /\ mqOps < MqMaxOps
    /\ mqOps' = mqOps + 1
    /\ mqLastCall' = name
    /\ mqQuery' = query
    /\ MqCommit(MqRender(s, query))
    /\ UNCHANGED <<mqPhase, mqSsrSafe>>
    /\ UNCHANGED MqOthers

\* startWatching()
MqStartWatching ==
    /\ MqStep("start", [MqState EXCEPT !.shouldListen = TRUE], mqQuery)
    /\ UNCHANGED mqMedia

\* stopWatching()
MqStopWatching ==
    /\ MqStep("stop", [MqState EXCEPT !.shouldListen = FALSE], mqQuery)
    /\ UNCHANGED mqMedia

\* The component renders again, with this query.
MqRerender ==
    /\ \E query \in MqQueries : MqStep("render", MqState, query)
    /\ UNCHANGED mqMedia

\* The window starts or stops matching a query; the lists of that query dispatch 'change'
\* to their listeners, each of which is handleChange: setMatches(e.matches).
MqMediaChange ==
    \E query \in MqQueries :
        /\ mqMedia' = [mqMedia EXCEPT ![query] = ~@]
        /\ MqStep("change",
                  IF \E l \in mqListeners : l.query = query
                  THEN [MqState EXCEPT !.matches = ~mqMedia[query]]
                  ELSE MqState,
                  mqQuery)

\* Unmount: the cleanup of the listener effect.
MqUnmount ==
    /\ mqPhase = "mounted"
    /\ mqPhase' = "unmounted"
    /\ MqCommit(MqCleanup(MqState))
    /\ UNCHANGED <<mqQuery, mqSsrSafe, mqMedia, mqLastCall, mqOps>>
    /\ UNCHANGED MqOthers

MqNext ==
    \/ MqMount \/ MqStartWatching \/ MqStopWatching \/ MqRerender \/ MqMediaChange
    \/ MqUnmount

SpecMediaQuery == MqInit /\ [][MqNext]_vars

\* ---- claims about useMediaQuery

\* C26: every listener the hook registers is removed exactly once, on re-subscription or
\* on unmount; at most one listener of the instance is registered at any time, the old
\* one being removed before the new one is added; none remains after stopWatching() or
\* unmount.
C26_ListenersRemovedOnce ==
    /\ [](/\ mqPhase # "idle" => DOMAIN mqRemoved = 1 .. mqNextId - 1
          /\ \A id \in DOMAIN mqRemoved :
                 /\ mqRemoved[id] <= 1
                 /\ mqRemoved[id] = 0 <=> \E l \in mqListeners : l.id = id
          /\ mqMaxHeld <= 1
          /\ \A l \in mqListeners : l.id = mqEffect /\ l.query = mqQuery
          /\ (mqPhase = "unmounted" \/ (mqPhase = "mounted" /\ ~mqShouldListen)) =>
                 mqListeners = {})
    /\ [][\A id \in DOMAIN mqRemoved :
              mqRemoved'[id] # mqRemoved[id] =>
                  (MqUnmount \/ mqDeps' # mqDeps)]_vars

\* C26 witness: three listeners were added, by the mount, by a change of query and by
\* startWatching() after stopWatching(), and the component is unmounted: each was removed once.
C26_Witness ==
    /\ mqPhase = "unmounted"
    /\ mqNextId = 4
    /\ \A id \in 1 .. 3 : mqRemoved[id] = 1
    /\ mqListeners = {}

\* -------------------------------------------------------------------
\* useToggle (src/src/hooks/useToggle.ts), options unchanged from render to render,
\* a store that accepts the writes
\* -------------------------------------------------------------------

\* Calls per behaviour of useToggle.
TgMaxOps == 3

\* localStorage.getItem(storageKey) === null
TgAbsent == "absent"

\* The items storageKey may hold before the hook is mounted.
TgSeeds == {TgAbsent, "", "true", "false"}

\* JSON.stringify of a boolean.
TgStringify(v) == IF v THEN "true" ELSE "false"

\* JSON.parse of the text of a boolean.
TgParse(text) == text = "true"

\* The state initializer.
TgInitialState(persist, stored, initialValue) ==
    IF persist
    THEN IF stored # TgAbsent /\ stored # "" THEN TgParse(stored) ELSE initialValue
    ELSE initialValue

TgState == [value |-> tgValue, store |-> tgStore, onChange |-> tgOnChange,
            writes |-> tgWrites]

\* updateValue without the mounted.current guard.
TgUpdateValue_NoGuard(s, newValue) ==
    [s EXCEPT !.value = newValue,
              !.onChange = Append(@, newValue),
              !.store = IF tgPersist THEN TgStringify(newValue) ELSE @,
              !.writes = IF tgPersist THEN @ + 1 ELSE @]

\* updateValue that does not write to the store.
TgUpdateValue_NoWrite(s, newValue) ==
    IF tgMounted
    THEN [s EXCEPT !.value = newValue, !.onChange = Append(@, newValue)]
    ELSE s

\* updateValue(newValue)
TgUpdateValue(s, newValue) ==
    IF tgMounted
    THEN [s EXCEPT !.value = newValue,
                   !.onChange = Append(@, newValue),
                   !.store = IF tgPersist THEN TgStringify(newValue) ELSE @,
                   !.writes = IF tgPersist THEN @ + 1 ELSE @]
    ELSE s

TgInit ==
    /\ tgPhase = "new"
    /\ tgInitialValue \in BOOLEAN
    /\ tgPersist \in BOOLEAN
    /\ tgSeed \in TgSeeds
    /\ tgStore = tgSeed
    /\ tgValue = TgInitialState(tgPersist, tgSeed, tgInitialValue)
    /\ tgRendered = tgValue
    /\ tgMounted = TRUE
    /\ tgOnChange = <<>>
    /\ tgWrites = 0
    /\ tgLastCall = "none"
    /\ tgOps = 0
    /\ StIdle /\ QIdle /\ DbIdle /\ TmIdle /\ IvIdle /\ HiIdle /\ LbIdle
    /\ L2Idle /\ CcIdle /\ PlIdle /\ IdIdle /\ MqIdle /\ WwIdle /\ BoIdle

\* The first render.
TgMount ==
    /\ tgPhase = "new"
    /\ tgPhase' = "mounted"
    /\ UNCHANGED <<tgInitialValue, tgPersist, tgValue, tgRendered, tgMounted, tgStore,
                   tgSeed, tgOnChange, tgWrites, tgLastCall, tgOps>>
    /\ UNCHANGED TgOthers

\* A returned function of the latest render is called, before or after the unmount.
TgCall(name, newValue) ==
    /\ tgPhase \in {"mounted", "unmounted"}
    /\ tgOps < TgMaxOps
    /\ tgOps' = tgOps + 1
    /\ tgLastCall' = name
    /\ LET s == TgUpdateValue(TgState, newValue)
       IN  /\ tgValue' = s.value
           /\ tgStore' = s.store
           /\ tgOnChange' = s.onChange
           /\ tgWrites' = s.writes
    /\ UNCHANGED <<tgPhase, tgInitialValue, tgPersist, tgRendered, tgMounted, tgSeed>>
    /\ UNCHANGED TgOthers

\* toggle(): updateValue(!value), value being that of the latest render.
TgToggle == TgCall("toggle", ~tgRendered)

TgSetTrue == TgCall("setTrue", TRUE)

TgSetFalse == TgCall("setFalse", FALSE)

TgSetValue == \E v \in BOOLEAN : TgCall("setValue", v)

\* The render the state update scheduled.
TgRender ==
    /\ tgPhase = "mounted"
    /\ tgRendered # tgValue
    /\ tgRendered' = tgValue
    /\ UNCHANGED <<tgPhase, tgInitialValue, tgPersist, tgValue, tgMounted, tgStore, tgSeed,
                   tgOnChange, tgWrites, tgLastCall, tgOps>>
    /\ UNCHANGED TgOthers

\* Unmount: mounted.current = false.
TgUnmount ==
    /\ tgPhase = "mounted"
    /\ tgPhase' = "unmounted"
    /\ tgMounted' = FALSE
    /\ UNCHANGED <<tgInitialValue, tgPersist, tgValue, tgRendered, tgStore, tgSeed,
                   tgOnChange, tgWrites, tgLastCall, tgOps>>
    /\ UNCHANGED TgOthers

TgNext ==
    \/ TgMount \/ TgToggle \/ TgSetTrue \/ TgSetFalse \/ TgSetValue \/ TgRender
    \/ TgUnmount

SpecToggle == TgInit /\ [][TgNext]_vars

\* ---- claims about useToggle

\* A call of toggle, setTrue, setFalse or setValue.
TgMutation == TgToggle \/ TgSetTrue \/ TgSetFalse \/ TgSetValue

C39_ToggleComposes ==
    [][(TgToggle /\ tgPhase = "mounted") =>
           /\ tgValue' = ~tgValue
           /\ tgOnChange'[Len(tgOnChange')] = tgValue'
           /\ tgPersist => tgStore' = TgStringify(tgValue')]_vars

\* C28: after the unmount a call of toggle, setTrue, setFalse or setValue leaves the
\* value, the store entry and the onChange call count unchanged.
C28_NoEffectAfterUnmount ==
    [][(TgMutation /\ tgPhase = "unmounted") =>
           /\ tgValue' = tgValue
           /\ tgStore' = tgStore /\ tgWrites' = tgWrites
           /\ tgOnChange' = tgOnChange]_vars

\* C28 witness: persist; setTrue() while mounted, then toggle() after the unmount: the
\* value and the store still hold true, onChange was called once.
C28_Witness ==
    /\ tgPhase = "unmounted" /\ tgPersist /\ tgSeed = "false"
    /\ tgOps = 2 /\ tgLastCall = "toggle"
    /\ tgValue /\ tgStore = "true" /\ tgOnChange = <<TRUE>>

\* -------------------------------------------------------------------
\* usePageLeave (src/unnamed/part_019), options unchanged from render to render
\* -------------------------------------------------------------------

\* Calls and mouse events per behaviour of usePageLeave.
PlMaxOps == 4
\* Option threshold is 0..PlMaxThreshold; clientY is -1..PlMaxThreshold + 1.
PlMaxThreshold == 1

PlClientYs == -1 .. PlMaxThreshold + 1

\* No handler is registered on document.
PlNoListener == [on |-> FALSE, isEnabled |-> FALSE, hasLeft |-> FALSE]

\* What the handlers of a render hold of the state.
PlDepsOf(s) == [isEnabled |-> s.isEnabled, hasLeft |-> s.hasLeft]

PlState == [hasLeft |-> plHasLeft, isEnabled |-> plIsEnabled, listener |-> plListener,
            deps |-> plDeps, onLeave |-> plOnLeave, onReturn |-> plOnReturn]

\* handleMouseOut with clientY < threshold.
PlHandleMouseOut_Strict(s, c, clientY) ==
    IF c.isEnabled /\ clientY < plThreshold
    THEN [s EXCEPT !.hasLeft = TRUE, !.onLeave = @ + 1]
    ELSE s

\* handleMouseOut(e) of a render that holds c.
PlHandleMouseOut(s, c, clientY) ==
    IF c.isEnabled /\ clientY <= plThreshold
    THEN [s EXCEPT !.hasLeft = TRUE, !.onLeave = @ + 1]
    ELSE s

\* handleMouseOver() of a render that holds c.
PlHandleMouseOver(s, c) ==
    IF c.isEnabled /\ c.hasLeft
    THEN [s EXCEPT !.hasLeft = FALSE, !.onReturn = @ + 1]
    ELSE s

\* The effect of a render that holds c, without the cleanup before it.
PlEffect(s, c) ==
    IF c.isEnabled
    THEN [s EXCEPT !.listener = [on |-> TRUE, isEnabled |-> c.isEnabled,
                                 hasLeft |-> c.hasLeft]]
    ELSE s

\* The cleanup of the effect.
PlCleanup(s) == [s EXCEPT !.listener = PlNoListener]

\* The render that follows a change of state: the handlers are new functions, so the
\* effect runs again after its cleanup.
PlRender(s) ==
    LET c == PlDepsOf(s)
    IN  IF c = s.deps THEN s ELSE [PlEffect(PlCleanup(s), c) EXCEPT !.deps = c]

PlCommit(s) ==
    /\ plHasLeft' = s.hasLeft
    /\ plIsEnabled' = s.isEnabled
    /\ plListener' = s.listener
    /\ plDeps' = s.deps
    /\ plOnLeave' = s.onLeave
    /\ plOnReturn' = s.onReturn

PlInit ==
    /\ plPhase = "new"
    /\ plThreshold \in 0 .. PlMaxThreshold
    /\ plHasLeft = FALSE
    /\ plIsEnabled \in BOOLEAN
    /\ plListener = PlNoListener
    /\ plDeps = [isEnabled |-> plIsEnabled, hasLeft |-> plHasLeft]
    /\ plOnLeave = 0
    /\ plOnReturn = 0
    /\ plLastCall = "none"
    /\ plLastY = 0
    /\ plOps = 0
    /\ StIdle /\ QIdle /\ DbIdle /\ TmIdle /\ IvIdle /\ HiIdle /\ LbIdle
    /\ L2Idle /\ CcIdle /\ IdIdle /\ MqIdle /\ TgIdle /\ WwIdle /\ BoIdle

\* The first render and its effect.
PlMount ==
    /\ plPhase = "new"
    /\ plPhase' = "mounted"
    /\ PlCommit(PlEffect(PlState, plDeps))
    /\ UNCHANGED <<plThreshold, plLastCall, plLastY, plOps>>
    /\ UNCHANGED PlOthers

\* A call or a mouse event, and the render that follows it.
PlStep(name, s) ==
    /\ plPhase = "mounted"
    /\ plOps < PlMaxOps
    /\ plOps' = plOps + 1
    /\ plLastCall' = name
    /\ PlCommit(PlRender(s))
    /\ UNCHANGED <<plPhase, plThreshold>>
    /\ UNCHANGED PlOthers

\* document dispatches 'mouseout': the registered handler, if any, runs.
PlMouseOut ==
    \E clientY \in PlClientYs :
        /\ plLastY' = clientY
        /\ PlStep("mouseout", IF plListener.on
                              THEN PlHandleMouseOut(PlState, plListener, clientY)
                              ELSE PlState)

\* document dispatches 'mouseover'.
PlMouseOver ==
    /\ PlStep("mouseover", IF plListener.on
                           THEN PlHandleMouseOver(PlState, plListener)
                           ELSE PlState)
    /\ UNCHANGED plLastY

\* enable()
PlEnable ==
    /\ PlStep("enable", [PlState EXCEPT !.isEnabled = TRUE])
    /\ UNCHANGED plLastY

\* disable()
PlDisable ==
    /\ PlStep("disable", [PlState EXCEPT !.isEnabled = FALSE])
    /\ UNCHANGED plLastY

\* Unmount: the cleanup of the effect.
PlUnmount ==
    /\ plPhase = "mounted"
    /\ plPhase' = "unmounted"
    /\ PlCommit(PlCleanup(PlState))
    /\ UNCHANGED <<plThreshold, plLastCall, plLastY, plOps>>
    /\ UNCHANGED PlOthers

PlNext == PlMount \/ PlMouseOut \/ PlMouseOver \/ PlEnable \/ PlDisable \/ PlUnmount

SpecPageLeave == PlInit /\ [][PlNext]_vars

\* ---- claims about usePageLeave

\* hasLeft and the callback counts stay as they are.
PlNothingChanges ==
    plHasLeft' = plHasLeft /\ plOnLeave' = plOnLeave /\ plOnReturn' = plOnReturn

\* C29: while enabled, a mouse-out with clientY <= threshold sets hasLeft and fires
\* onLeave, one with clientY > threshold changes nothing, a mouse-over fires onReturn and
\* clears hasLeft only if hasLeft was true; while disabled no event changes hasLeft or
\* fires a callback; disable() leaves hasLeft as it was.
C29_LeaveAndReturn ==
    [][/\ (PlMouseOut /\ plIsEnabled /\ plLastY' <= plThreshold) =>
              (plHasLeft' /\ plOnLeave' = plOnLeave + 1 /\ plOnReturn' = plOnReturn)
       /\ (PlMouseOut /\ plIsEnabled /\ plLastY' > plThreshold) => PlNothingChanges
       /\ (PlMouseOver /\ plIsEnabled /\ plHasLeft) =>
              (~plHasLeft' /\ plOnReturn' = plOnReturn + 1 /\ plOnLeave' = plOnLeave)
       /\ (PlMouseOver /\ plIsEnabled /\ ~plHasLeft) => PlNothingChanges
       /\ ((PlMouseOut \/ PlMouseOver) /\ ~plIsEnabled) => PlNothingChanges
       /\ PlDisable => PlNothingChanges
      ]_vars

\* C29 witness: the mouse left and returned, then left again; tracking was disabled with
\* hasLeft true, and a mouse-over while disabled changed nothing.
C29_Witness ==
    /\ plPhase = "mounted" /\ ~plIsEnabled /\ plHasLeft
    /\ plOnLeave = 1 /\ plOnReturn = 0
    /\ plLastCall = "mouseover" /\ plOps = 3

\* -------------------------------------------------------------------
\* useWindowWidth (src/unnamed/part_022), options unchanged from render to render
\* -------------------------------------------------------------------

\* Calls and resize events per behaviour of useWindowWidth.
WwMaxOps == 3
\* Option debounceDelay is 1..WwMaxDelay ms.
WwMaxDelay == 2
\* The clock runs from 0 to WwMaxTime ms.
WwMaxTime == 4
\* window.innerWidth is 1..WwMaxWidth.
WwMaxWidth == 2

WwWidths == 1 .. WwMaxWidth

\* timeoutRef.current = null
WwNoTimer == 0

WwState == [width |-> wwWidth, isMonitoring |-> wwIsMonitoring, timeoutRef |-> wwTimeoutRef,
            timers |-> wwTimers, nextId |-> wwNextId, listening |-> wwListening,
            deps |-> wwDeps]

\* if (timeoutRef.current) window.clearTimeout(timeoutRef.current)
WwClearTimeout(s) ==
    IF s.timeoutRef # WwNoTimer
    THEN [s EXCEPT !.timers = {t \in @ : t.id # s.timeoutRef}]
    ELSE s

\* handleResize() that leaves the timer it finds armed.
WwHandleResize_NoClear(s) ==
    [s EXCEPT !.timers = @ \cup {[id |-> s.nextId, due |-> wwNow + wwDelay]},
              !.timeoutRef = s.nextId,
              !.nextId = @ + 1]

\* handleResize()
WwHandleResize(s) ==
    LET s1 == WwClearTimeout(s)
    IN  [s1 EXCEPT !.timers = @ \cup {[id |-> s.nextId, due |-> wwNow + wwDelay]},
                   !.timeoutRef = s.nextId,
                   !.nextId = @ + 1]

\* The cleanup the effect returned when it ran with isMonitoring true.
WwCleanup(s) ==
    IF s.deps THEN [WwClearTimeout(s) EXCEPT !.listening = FALSE] ELSE s

\* The effect, without the cleanup before it.
WwEffect(s) ==
    IF s.isMonitoring
    THEN [s EXCEPT !.listening = TRUE, !.deps = TRUE]
    ELSE [WwClearTimeout(s) EXCEPT !.listening = FALSE, !.timeoutRef = WwNoTimer,
                                   !.deps = FALSE]

\* The render that follows a state update: the effect runs again, after its cleanup,
\* when isMonitoring changed.
WwRender(s) == IF s.isMonitoring # s.deps THEN WwEffect(WwCleanup(s)) ELSE s

WwCommit(s) ==
    /\ wwWidth' = s.width
    /\ wwIsMonitoring' = s.isMonitoring
    /\ wwTimeoutRef' = s.timeoutRef
    /\ wwTimers' = s.timers
    /\ wwNextId' = s.nextId
    /\ wwListening' = s.listening
    /\ wwDeps' = s.deps

WwInit ==
    /\ wwPhase = "new"
    /\ wwDelay \in 1 .. WwMaxDelay
    /\ wwInnerWidth \in WwWidths
    /\ wwWidth = wwInnerWidth
    /\ wwIsMonitoring \in BOOLEAN
    /\ wwTimeoutRef = WwNoTimer
    /\ wwTimers = {}
    /\ wwNextId = 1
    /\ wwListening = FALSE
    /\ wwDeps = wwIsMonitoring
    /\ wwOnChange = <<>>
    /\ wwUpdates = 0
    /\ wwNow = 0
    /\ wwLastResize = 0
    /\ wwBurst = FALSE
    /\ wwLastCall = "none"
    /\ wwOps = 0
    /\ StIdle /\ QIdle /\ DbIdle /\ TmIdle /\ IvIdle /\ HiIdle /\ LbIdle
    /\ L2Idle /\ CcIdle /\ IdIdle /\ MqIdle /\ TgIdle /\ PlIdle /\ BoIdle

\* What a step that is neither a resize nor a timer leaves alone.
WwKept == <<wwDelay, wwInnerWidth, wwOnChange, wwUpdates, wwNow, wwLastResize>>

\* The first render and its effect.
WwMount ==
    /\ wwPhase = "new"
    /\ wwPhase' = "mounted"
    /\ WwCommit(WwEffect(WwState))
    /\ UNCHANGED <<wwBurst, wwLastCall, wwOps>>
    /\ UNCHANGED WwKept
    /\ UNCHANGED WwOthers

\* The window is resized to this width and dispatches 'resize'.
WwResize ==
    /\ wwPhase = "mounted"
    /\ wwOps < WwMaxOps
    /\ wwOps' = wwOps + 1
    /\ wwLastCall' = "resize"
    /\ \E w \in WwWidths : wwInnerWidth' = w
    /\ wwLastResize' = wwNow
    /\ WwCommit(IF wwListening THEN WwHandleResize(WwState) ELSE WwState)
    /\ wwBurst' = wwListening
    /\ UNCHANGED <<wwPhase, wwDelay, wwOnChange, wwUpdates, wwNow>>
    /\ UNCHANGED WwOthers

\* start() or stop(), and the render that follows.
WwSetMonitoring(name, monitoring) ==
    /\ wwPhase = "mounted"
    /\ wwOps < WwMaxOps
    /\ wwOps' = wwOps + 1
    /\ wwLastCall' = name
    /\ WwCommit(WwRender([WwState EXCEPT !.isMonitoring = monitoring]))
    /\ wwBurst' = (wwBurst /\ monitoring)
    /\ UNCHANGED wwPhase
    /\ UNCHANGED WwKept
    /\ UNCHANGED WwOthers

WwStart == WwSetMonitoring("start", TRUE)

WwStop == WwSetMonitoring("stop", FALSE)

\* The clock advances; a timer fires when it is due, not later.
WwTick ==
    /\ wwPhase # "new"
    /\ wwNow < WwMaxTime
    /\ \A t \in wwTimers : t.due > wwNow
    /\ wwNow' = wwNow + 1
    /\ wwLastCall' = "tick"
    /\ UNCHANGED <<wwPhase, wwDelay, wwWidth, wwIsMonitoring, wwTimeoutRef, wwTimers,
                   wwNextId, wwListening, wwDeps, wwInnerWidth, wwOnChange, wwUpdates,
                   wwLastResize, wwBurst, wwOps>>
    /\ UNCHANGED WwOthers

\* A due timer fires: setWidth(window.innerWidth); onChange?.(newWidth).
WwFire ==
    /\ \E t \in wwTimers :
           /\ t.due <= wwNow
           /\ wwTimers' = wwTimers \ {t}
    /\ wwWidth' = IF wwPhase = "mounted" THEN wwInnerWidth ELSE wwWidth
    /\ wwUpdates' = wwUpdates + 1
    /\ wwOnChange' = Append(wwOnChange, wwInnerWidth)
    /\ wwBurst' = FALSE
    /\ wwLastCall' = "fire"
    /\ UNCHANGED <<wwPhase, wwDelay, wwIsMonitoring, wwTimeoutRef, wwNextId, wwListening,
                   wwDeps, wwInnerWidth, wwNow, wwLastResize, wwOps>>
    /\ UNCHANGED WwOthers

\* Unmount: the cleanup of the effect, if it returned one.
WwUnmount ==
    /\ wwPhase = "mounted"
    /\ wwPhase' = "unmounted"
    /\ WwCommit(WwCleanup(WwState))
    /\ wwBurst' = FALSE
    /\ UNCHANGED <<wwLastCall, wwOps>>
    /\ UNCHANGED WwKept
    /\ UNCHANGED WwOthers

WwNext == WwMount \/ WwResize \/ WwStart \/ WwStop \/ WwTick \/ WwFire \/ WwUnmount

SpecWindowWidth == WwInit /\ [][WwNext]_vars

\* ---- claims about useWindowWidth

\* C30: while monitoring, a burst of resize events followed by debounceDelay ms without
\* a resize produces exactly one width update and one onChange call, both with the window
\* width current at that moment, and no update earlier; after stop() or unmount a pending
\* debounce timer never updates width or calls onChange.
C30_DebouncedWidth ==
    /\ [](/\ Cardinality(wwTimers) <= 1
          /\ wwBurst <=> wwTimers # {}
          /\ \A t \in wwTimers :
                 t.due = wwLastResize + wwDelay /\ t.due >= wwNow /\ t.id = wwTimeoutRef
          /\ (wwPhase = "unmounted" \/ ~wwIsMonitoring) => wwTimers = {}
          /\ wwUpdates = Len(wwOnChange))
    /\ [][(wwUpdates' # wwUpdates \/ wwOnChange' # wwOnChange \/ wwWidth' # wwWidth) =>
              /\ WwFire /\ wwBurst /\ wwIsMonitoring /\ wwPhase = "mounted"
              /\ wwNow = wwLastResize + wwDelay
              /\ wwUpdates' = wwUpdates + 1
              /\ wwWidth' = wwInnerWidth
              /\ wwOnChange' = Append(wwOnChange, wwInnerWidth)
              /\ ~wwBurst']_vars

\* C30 witness: a burst of three resize events at two instants, and one update, with the
\* width of the last, debounceDelay ms after the last.
C30_Witness ==
    /\ wwPhase = "mounted" /\ wwIsMonitoring
    /\ wwOps = 3 /\ wwNextId = 4 /\ wwLastResize > 0
    /\ wwUpdates = 1 /\ wwOnChange = <<wwInnerWidth>> /\ wwWidth = wwInnerWidth
    /\ wwNow = wwLastResize + wwDelay /\ wwLastCall = "fire"

\* -------------------------------------------------------------------
\* useBoolean (src/unnamed/part_014)
\* -------------------------------------------------------------------

\* Calls per behaviour of useBoolean.
BoMaxOps == 4

\* setValue(x): a plain next state.
BoSet(x) == [fn |-> FALSE, v |-> x]

\* toggle() that passes the negation of the rendered value.
BoToggleUpdate_Rendered(value) == [fn |-> FALSE, v |-> ~value]

\* toggle(): setValue((v) => !v); the rendered value is not read.
BoToggleUpdate(value) == [fn |-> TRUE, v |-> FALSE]

\* React applies the queued updates in order to the state of the latest render.
RECURSIVE BoRunUpdates(_, _)
BoRunUpdates(value, updates) ==
    IF updates = <<>> THEN value
    ELSE BoRunUpdates(IF Head(updates).fn THEN ~value ELSE Head(updates).v, Tail(updates))

BoInit ==
    /\ boPhase = "new"
    /\ boValue \in BOOLEAN
    /\ boPending = <<>>
    /\ boExpected = boValue
    /\ boBatch = <<>>
    /\ boLastCall = "none"
    /\ boOps = 0
    /\ StIdle /\ QIdle /\ DbIdle /\ TmIdle /\ IvIdle /\ HiIdle /\ LbIdle
    /\ L2Idle /\ CcIdle /\ IdIdle /\ MqIdle /\ TgIdle /\ PlIdle /\ WwIdle

\* The first render.
BoMount ==
    /\ boPhase = "new"
    /\ boPhase' = "mounted"
    /\ UNCHANGED <<boValue, boPending, boExpected, boBatch, boLastCall, boOps>>
    /\ UNCHANGED BoOthers

\* A call of one of the four functions: it queues its update.
BoCall(name, update, expected) ==
    /\ boPhase = "mounted"
    /\ boOps < BoMaxOps
    /\ boOps' = boOps + 1
    /\ boLastCall' = name
    /\ boPending' = Append(boPending, update)
    /\ boExpected' = expected
    /\ boBatch' = IF boPending = <<>> THEN <<name>> ELSE Append(boBatch, name)
    /\ UNCHANGED <<boPhase, boValue>>
    /\ UNCHANGED BoOthers

BoSetTrue == BoCall("setTrue", BoSet(TRUE), TRUE)

BoSetFalse == BoCall("setFalse", BoSet(FALSE), FALSE)

BoToggle == BoCall("toggle", BoToggleUpdate(boValue), ~boExpected)

BoSetValue == \E x \in BOOLEAN : BoCall("setValue", BoSet(x), x)

\* The re-render that closes a batch.
BoRender ==
    /\ boPhase = "mounted"
    /\ boPending # <<>>
    /\ boValue' = BoRunUpdates(boValue, boPending)
    /\ boPending' = <<>>
    /\ boLastCall' = "render"
    /\ UNCHANGED <<boPhase, boExpected, boBatch, boOps>>
    /\ UNCHANGED BoOthers

\* Unmount: the queued updates are dropped.
BoUnmount ==
    /\ boPhase = "mounted"
    /\ boPhase' = "unmounted"
    /\ boPending' = <<>>
    /\ UNCHANGED <<boValue, boExpected, boBatch, boLastCall, boOps>>
    /\ UNCHANGED BoOthers

BoNext == BoMount \/ BoSetTrue \/ BoSetFalse \/ BoToggle \/ BoSetValue \/ BoRender \/ BoUnmount

SpecBoolean == BoInit /\ [][BoNext]_vars

\* ---- claims about useBoolean

\* C31: after any sequence of setTrue, setFalse, toggle and setValue calls, several in one
\* batch included, the value is the result of applying the calls one after another (toggle
\* negating what the previous call left); a second setTrue or setFalse changes nothing.
C31_CallsApplyInOrder ==
    /\ (boPhase = "mounted" /\ boPending = <<>>) => boValue = boExpected
    /\ boPhase = "mounted" => BoRunUpdates(boValue, boPending) = boExpected
    /\ \A x \in BOOLEAN :
           BoRunUpdates(boValue, Append(Append(boPending, BoSet(x)), BoSet(x)))
               = BoRunUpdates(boValue, Append(boPending, BoSet(x)))

\* C31 witness: a batch of three calls with two toggles has been rendered.
C31_Witness ==
    /\ boPhase = "mounted" /\ boLastCall = "render"
    /\ boBatch = <<"toggle", "setFalse", "toggle">>
    /\ boValue = TRUE /\ boExpected = TRUE
====
